---- MODULE Spec2Model ----
(***************************************************************************)
(* A model of the ImgPro CDN worker (img-pro/unlimited-cdn).               *)
(*                                                                         *)
(* Part I  - the usage aggregator, the durable object SiteUsageTracker of  *)
(*           usage-tracker.ts (src/unnamed/part_004, lines 1-250): its     *)
(*           in-memory counters, its durable storage, its alarm, and the   *)
(*           billing store (D1) it flushes to.  Specification: Spec; with  *)
(*           billing bound and the platform's scheduling: BoundSpec; with  *)
(*           storage writes that may reject: FaultySpec.  The in-memory    *)
(*           tracker of src/unnamed/part_003: InMemorySpec.                *)
(* Part II - the request pipeline: the worker's fetch handler, URL parsing *)
(*           and admission, the cache port and the origin fetcher.         *)
(*           Specification: PipeSpec.                                      *)
(* The range parser of range.ts (src/unnamed/part_007) is also applied on  *)
(* its own, to headers and sizes drawn from bounded sets                   *)
(* (RangeSpec), and so are validateOrigin (AdmissionSpec) and parseUrl     *)
(* (UrlSpec) of validation.ts, and the size-limited stream of              *)
(* src/unnamed/part_004, lines 641-684 (StreamSpec).                       *)
(***************************************************************************)
EXTENDS Integers, Sequences, FiniteSets, TLC

(***************************************************************************)
(* Bounds of the model.                                                    *)
(***************************************************************************)
\* How many record calls (fetch on the durable object) a behaviour holds.
MaxRecords == 2
\* The largest byte count one record call carries.
MaxBytes == 2
\* How many requests a behaviour of the worker holds (they may all be in flight).
MaxRequests == 2
\* The size cap of the deployments, parseFileSize(env.MAX_FILE_SIZE), in bytes.
MaxFileSize == 3
\* The largest total size, and the largest number in a Range header less one,
\* that the range parser is applied to on its own.
MaxTotalSize == 11
\* the most chunks the source of a size-limited stream delivers, and the most
\* bytes in one chunk
MaxChunks == 3
MaxChunkBytes == 2

\* The tenant this durable object instance belongs to (idFromName("tenant:<id>")),
\* and the origin host its records carry.
TenantId == 7
TenantDomain == "example.com"

\* The period of the alarm, Date.now() + 60000 (part_004:74, 179, 248), in
\* half minutes.
AlarmPeriod == 2

(***************************************************************************)
(* Part I.  State of the usage aggregator.                                 *)
(***************************************************************************)
VARIABLES
    \* in-memory fields of SiteUsageTracker (part_004:52-58)
    siteId, domain, bandwidth, requests, cacheHits, cacheMisses, initialized,
    \* this.env.BILLING_DB is bound (fixed for one incarnation of the object)
    billingBound,
    \* this.state.storage: a function from the keys present to their values
    storage,
    \* an alarm is pending (state.storage.getAlarm() is not null)
    alarmSet,
    \* the time left until the pending alarm is due, in half minutes (0 when
    \* the alarm is due, and when none is pending)
    alarmIn,
    \* where the alarm handler stands: "idle" (no handler runs) or "d1"
    \* (alarm() is suspended at `await this.env.BILLING_DB.batch(batch)`)
    trackerPc,
    \* the locals flushBandwidth .. flushSiteId of a suspended alarm()
    flush,
    \* billing store: table sites (rows by id) and table usage_hourly
    \* (rows by site_id, the hours of one site summed)
    sites, usage_hourly,
    \* status of the last response of fetch(): 0 (none yet), 200 or 500
    trackerResponse,
    \* history: what the accepted record calls carried; whether the
    \* missing-binding path of alarm() has cleared the counters; what the last
    \* failed flush tried to write (and whether a clear has voided it since);
    \* whether a record call arrived while a billing write was awaited
    recorded, cleared, owed, raced,
    \* history: the missing-binding path of alarm() has run, and the object has
    \* not been constructed with the billing store bound since
    stopped,
    \* history: what ran last on the object: "constructor", "fetch", "alarm",
    \* or "time" when time passed
    ran

trackerVars == <<siteId, domain, bandwidth, requests, cacheHits, cacheMisses,
                 initialized, billingBound, storage, alarmSet, trackerPc, flush,
                 sites, usage_hourly, trackerResponse, recorded, cleared, owed,
                 raced, alarmIn, stopped, ran>>

(***************************************************************************)
(* Part II.  State of the worker.                                          *)
(***************************************************************************)
VARIABLES
    \* the environment bindings and configuration of the deployment (types.ts:4-14)
    env,
    \* the route HEAD takes in the deployed entry point: "inline" or "handleHeadRequest"
    headRoute,
    \* the object store (env.R2): a function from cache keys to objects
    r2,
    \* the upload stamp the store gave last (R2Object.uploaded)
    clock,
    \* the requests: a function from 1..MaxRequests to what is kept of each
    req,
    \* history: the calls of fetch() made by the origin fetcher, [slot, url];
    \* the puts that replaced an object, [slot, force]
    fetchCalls, overwrites

workerVars == <<env, headRoute, r2, clock, req, fetchCalls, overwrites>>

(***************************************************************************)
(* Functions applied on their own: the range parser, admission             *)
(* (validateOrigin), the URL parser (parseUrl) and the size-limited stream *)
(* (createSizeLimitedStream).                                              *)
(***************************************************************************)
VARIABLES
    \* a call of parseRangeHeader: its arguments rangeHeader and totalSize, and
    \* whether it has returned
    rangeCall,
    \* what the call returned (the null RangeInfo before it returns)
    rangeResult,
    \* a call of validateOrigin: the host, the environment (its block list as
    \* the patterns it was written from), what the registry holds under the
    \* host and whether the read throws, and whether the call has returned
    originCall,
    \* what the call returned (NoValidation before it returns)
    originResult,
    \* two calls of parseUrl: the two pathnames, the host and the segments both
    \* were written from, and whether the calls have returned
    urlCall,
    \* what the two calls returned
    urlResult,
    \* one stream made by createSizeLimitedStream: the chunks its source
    \* will deliver, maxSize, how many chunks the transformer has taken,
    \* totalBytes, the chunks emitted on the readable side, the state of the
    \* readable side, the byte-count promise and how often resolveByteCount
    \* or rejectByteCount has been called
    limited

parserVars == <<rangeCall, rangeResult, originCall, originResult, urlCall, urlResult,
                limited>>

vars == <<trackerVars, workerVars, parserVars>>

\* STORAGE_KEYS (part_004:37-44)
STORAGE_KEYS == {"siteId", "domain", "bandwidth", "requests", "cacheHits", "cacheMisses"}

\* The four counters as one record, for the arithmetic of a flush.
Counters(b, r, h, m) == [bandwidth |-> b, requests |-> r, cacheHits |-> h, cacheMisses |-> m]

ZeroCounters == Counters(0, 0, 0, 0)

Live == Counters(bandwidth, requests, cacheHits, cacheMisses)

\* The locals of alarm() when no alarm handler is suspended.
NoFlush == [bandwidth |-> 0, requests |-> 0, cacheHits |-> 0, cacheMisses |-> 0, siteId |-> 0]

\* No failed flush is outstanding.
NothingOwed == [bandwidth |-> 0, requests |-> 0, cacheHits |-> 0, cacheMisses |-> 0,
                voided |-> FALSE]

\* stored.get(key) || fallback   (part_004:92-97)
StoredOr(store, key, fallback) ==
    IF key \in DOMAIN store THEN store[key] ELSE fallback

\* The durable copies of the four counters.
Stored == Counters(StoredOr(storage, "bandwidth", 0), StoredOr(storage, "requests", 0),
                   StoredOr(storage, "cacheHits", 0), StoredOr(storage, "cacheMisses", 0))

\* state.storage.put(entries): the keys given are overwritten, the others kept.
StoragePut(store, entries) ==
    [k \in DOMAIN store \cup DOMAIN entries |->
        IF k \in DOMAIN entries THEN entries[k] ELSE store[k]]

\* The empty storage (after deleteAll, or of a fresh object).
EmptyStorage == [k \in {} |-> 0]

\* The four counter entries written by fetch() and alarm().
CounterEntries(c) ==
    [k \in {"bandwidth", "requests", "cacheHits", "cacheMisses"} |-> c[k]]

\* A mutant of AfterFlush: the counters are left as they are after a
\* successful write (the subtraction is forgotten).
AfterFlushKept(live, flushed) == live

\* A mutant of AfterFlush: the counters are reset after a successful write,
\* as the in-memory variant of the tracker does (part_003:134-138).
AfterFlushReset(live, flushed) == ZeroCounters

\* A mutant of AfterFlush: the bandwidth is left as it is after a successful
\* write, the other three counters are reduced.
AfterFlushBandwidthKept(live, flushed) ==
    Counters(live.bandwidth, live.requests - flushed.requests,
             live.cacheHits - flushed.cacheHits, live.cacheMisses - flushed.cacheMisses)

\* alarm(), after the billing write: subtract only what was flushed
\* (part_004:227-232).
AfterFlush(live, flushed) ==
    Counters(live.bandwidth - flushed.bandwidth, live.requests - flushed.requests,
             live.cacheHits - flushed.cacheHits, live.cacheMisses - flushed.cacheMisses)

\* A mutant of AfterFailedFlush: the flushed amounts are subtracted although
\* the billing write failed (the subtraction moved out of the try block).
AfterFailedFlushSubtracted(live, flushed) ==
    Counters(live.bandwidth - flushed.bandwidth, live.requests - flushed.requests,
             live.cacheHits - flushed.cacheHits, live.cacheMisses - flushed.cacheMisses)

\* alarm(), the catch of a failed billing write: the counters are not
\* modified (part_004:241-245).
AfterFailedFlush(live, flushed) == live

\* The UPDATE of table sites: only an existing row is changed (part_004:199-206).
UpdateSites(tbl, id, f) ==
    IF id \in DOMAIN tbl
      THEN [tbl EXCEPT ![id] = [bandwidth_used_bytes |-> @.bandwidth_used_bytes + f.bandwidth,
                                cache_hits |-> @.cache_hits + f.cacheHits,
                                cache_misses |-> @.cache_misses + f.cacheMisses]]
      ELSE tbl

\* The INSERT ... ON CONFLICT DO UPDATE of table usage_hourly (part_004:209-218).
UpsertHourly(tbl, id, f) ==
    IF id \in DOMAIN tbl
      THEN [tbl EXCEPT ![id] = [bandwidth_bytes |-> @.bandwidth_bytes + f.bandwidth,
                                requests |-> @.requests + f.requests,
                                cache_hits |-> @.cache_hits + f.cacheHits,
                                cache_misses |-> @.cache_misses + f.cacheMisses]]
      ELSE [k \in DOMAIN tbl \cup {id} |->
              IF k = id THEN [bandwidth_bytes |-> f.bandwidth, requests |-> f.requests,
                              cache_hits |-> f.cacheHits, cache_misses |-> f.cacheMisses]
              ELSE tbl[k]]

\* Bandwidth in the hourly rollup of one site.
HourlyBandwidth(id) ==
    IF id \in DOMAIN usage_hourly THEN usage_hourly[id].bandwidth_bytes ELSE 0

HourlyRequests(id) ==
    IF id \in DOMAIN usage_hourly THEN usage_hourly[id].requests ELSE 0

RECURSIVE SumOver(_, _, _)
SumOver(tbl, keys, field) ==
    IF keys = {} THEN 0
    ELSE LET k == CHOOSE x \in keys : TRUE
         IN tbl[k][field] + SumOver(tbl, keys \ {k}, field)

\* Bandwidth and requests in the hourly rollup, all rows.
HourlyBandwidthAll == SumOver(usage_hourly, DOMAIN usage_hourly, "bandwidth_bytes")
HourlyRequestsAll == SumOver(usage_hourly, DOMAIN usage_hourly, "requests")

\* A pending alarm: setAlarm(Date.now() + 60000).
AlarmSetNow == [set |-> TRUE, in |-> AlarmPeriod]

\* A mutant of AlarmAfterConstructor: the alarm is set whatever is pending,
\* as the constructor of the in-memory tracker does (part_003:47-48).
AlarmAfterConstructorAlways(alarm, bound) == AlarmSetNow

\* The constructor's alarm (part_004:72-75): existingAlarm = getAlarm(); a new
\* alarm is set only if none exists and BILLING_DB is bound.
AlarmAfterConstructor(alarm, bound) ==
    IF ~alarm.set /\ bound THEN AlarmSetNow ELSE alarm

(***************************************************************************)
(* Construction of a fresh object (part_004:60-77): nothing is stored, the *)
(* alarm is set iff the billing store is bound.                            *)
(***************************************************************************)
TrackerInit ==
    /\ siteId = 0 /\ domain = ""
    /\ bandwidth = 0 /\ requests = 0 /\ cacheHits = 0 /\ cacheMisses = 0
    /\ initialized = FALSE
    /\ billingBound \in BOOLEAN
    /\ storage = EmptyStorage
    /\ alarmSet = billingBound
    /\ alarmIn = (IF billingBound THEN AlarmPeriod ELSE 0)
    /\ stopped = FALSE
    /\ ran = "constructor"
    /\ trackerPc = "idle"
    /\ flush = NoFlush
    /\ sites = [id \in {TenantId} |->
                  [bandwidth_used_bytes |-> 0, cache_hits |-> 0, cache_misses |-> 0]]
    /\ usage_hourly = [id \in {} |-> 0]
    /\ trackerResponse = 0
    /\ recorded = [bytes |-> 0, calls |-> 0]
    /\ cleared = FALSE
    /\ owed = NothingOwed
    /\ raced = FALSE

(***************************************************************************)
(* fetch(request) with a well-formed body (part_004:108-142).  The handler *)
(* runs while alarm() is suspended at the billing write as well: the       *)
(* write is external I/O, and does not close the object's input gate.      *)
(***************************************************************************)
SiteUsageTracker_fetch(bytes, cacheHit) ==
    /\ ran' = "fetch"
    /\ recorded.calls < MaxRecords
    /\ LET first == ~initialized
           b == bandwidth + bytes
           r == requests + 1
           h == IF cacheHit THEN cacheHits + 1 ELSE cacheHits
           m == IF cacheHit THEN cacheMisses ELSE cacheMisses + 1
           identity == IF first
                         THEN [k \in {"siteId", "domain"} |->
                                 IF k = "siteId" THEN TenantId ELSE TenantDomain]
                         ELSE EmptyStorage
       IN /\ initialized' = TRUE
          /\ siteId' = IF first THEN TenantId ELSE siteId
          /\ domain' = IF first THEN TenantDomain ELSE domain
          /\ bandwidth' = b /\ requests' = r /\ cacheHits' = h /\ cacheMisses' = m
          /\ storage' = StoragePut(StoragePut(storage, identity),
                                   CounterEntries(Counters(b, r, h, m)))
    /\ trackerResponse' = 200
    /\ recorded' = [bytes |-> recorded.bytes + bytes, calls |-> recorded.calls + 1]
    /\ raced' = (raced \/ trackerPc = "d1")
    /\ UNCHANGED <<billingBound, alarmSet, trackerPc, flush, sites, usage_hourly,
                   cleared, owed, alarmIn, stopped>>
    /\ UNCHANGED <<workerVars, parserVars>>

\* fetch(request) whose body is not JSON: request.json() throws, the catch
\* answers 500 (part_004:110, 143-146).
SiteUsageTracker_fetch_malformed ==
    /\ ran' = "fetch"
    /\ trackerResponse' = 500
    /\ UNCHANGED <<siteId, domain, bandwidth, requests, cacheHits, cacheMisses,
                   initialized, billingBound, storage, alarmSet, trackerPc, flush,
                   sites, usage_hourly, recorded, cleared, owed, raced, alarmIn,
                   stopped>>
    /\ UNCHANGED <<workerVars, parserVars>>

(***************************************************************************)
(* alarm() (part_004:158-249).  A pending alarm fires when no alarm        *)
(* handler runs; a firing alarm is no longer pending.                      *)
(***************************************************************************)
\* A mutant of SiteUsageTracker_alarm_unbound: the handler does not return
\* after clearing and sets the next alarm like the other paths.
SiteUsageTracker_alarm_unbound_rescheduled ==
    /\ ran' = "alarm"
    /\ trackerPc = "idle" /\ alarmSet /\ alarmIn = 0
    /\ ~billingBound
    /\ bandwidth' = 0 /\ requests' = 0 /\ cacheHits' = 0 /\ cacheMisses' = 0
    /\ storage' = EmptyStorage
    /\ alarmSet' = TRUE /\ alarmIn' = AlarmPeriod
    /\ stopped' = TRUE
    /\ cleared' = TRUE
    /\ owed' = [owed EXCEPT !.voided = TRUE]
    /\ UNCHANGED <<siteId, domain, initialized, billingBound, trackerPc, flush,
                   sites, usage_hourly, trackerResponse, recorded, raced>>
    /\ UNCHANGED <<workerVars, parserVars>>

\* BILLING_DB not bound: clear everything and stop (part_004:161-172).
SiteUsageTracker_alarm_unbound ==
    /\ ran' = "alarm"
    /\ trackerPc = "idle" /\ alarmSet /\ alarmIn = 0
    /\ ~billingBound
    /\ bandwidth' = 0 /\ requests' = 0 /\ cacheHits' = 0 /\ cacheMisses' = 0
    /\ storage' = EmptyStorage
    /\ alarmSet' = FALSE /\ alarmIn' = 0
    /\ stopped' = TRUE
    /\ cleared' = TRUE
    /\ owed' = [owed EXCEPT !.voided = TRUE]
    /\ UNCHANGED <<siteId, domain, initialized, billingBound, trackerPc, flush,
                   sites, usage_hourly, trackerResponse, recorded, raced>>
    /\ UNCHANGED <<workerVars, parserVars>>

\* No activity since the last flush: set the next alarm (part_004:177-181).
SiteUsageTracker_alarm_idle ==
    /\ ran' = "alarm"
    /\ trackerPc = "idle" /\ alarmSet /\ alarmIn = 0
    /\ billingBound
    /\ requests = 0
    /\ alarmSet' = TRUE /\ alarmIn' = AlarmPeriod
    /\ UNCHANGED <<siteId, domain, bandwidth, requests, cacheHits, cacheMisses,
                   initialized, billingBound, storage, trackerPc, flush, sites,
                   usage_hourly, trackerResponse, recorded, cleared, owed, raced,
                   stopped>>
    /\ UNCHANGED <<workerVars, parserVars>>

\* Capture the counters and start the batched write (part_004:185-221).
SiteUsageTracker_alarm_begin ==
    /\ ran' = "alarm"
    /\ trackerPc = "idle" /\ alarmSet /\ alarmIn = 0
    /\ billingBound
    /\ requests # 0
    /\ flush' = [bandwidth |-> bandwidth, requests |-> requests, cacheHits |-> cacheHits,
                 cacheMisses |-> cacheMisses, siteId |-> siteId]
    /\ trackerPc' = "d1"
    /\ alarmSet' = FALSE /\ alarmIn' = 0
    /\ UNCHANGED <<siteId, domain, bandwidth, requests, cacheHits, cacheMisses,
                   initialized, billingBound, storage, sites, usage_hourly,
                   trackerResponse, recorded, cleared, owed, raced, stopped>>
    /\ UNCHANGED <<workerVars, parserVars>>

\* The batched write succeeded: subtract what was flushed, persist, set the
\* next alarm (part_004:221-240, 248).
SiteUsageTracker_alarm_written ==
    /\ ran' = "alarm"
    /\ trackerPc = "d1"
    /\ sites' = UpdateSites(sites, flush.siteId, flush)
    /\ usage_hourly' = UpsertHourly(usage_hourly, flush.siteId, flush)
    /\ LET c == AfterFlush(Live, flush)
       IN /\ bandwidth' = c.bandwidth /\ requests' = c.requests
          /\ cacheHits' = c.cacheHits /\ cacheMisses' = c.cacheMisses
          /\ storage' = StoragePut(storage, CounterEntries(c))
    /\ alarmSet' = TRUE /\ alarmIn' = AlarmPeriod
    /\ trackerPc' = "idle"
    /\ flush' = NoFlush
    /\ owed' = NothingOwed
    /\ UNCHANGED <<siteId, domain, initialized, billingBound,
                   trackerResponse, recorded, cleared, raced, stopped>>
    /\ UNCHANGED <<workerVars, parserVars>>

\* A mutant of SiteUsageTracker_alarm_failed: the catch returns without
\* setting the next alarm.
SiteUsageTracker_alarm_failed_unscheduled ==
    /\ ran' = "alarm"
    /\ trackerPc = "d1"
    /\ LET c == AfterFailedFlush(Live, flush)
       IN /\ bandwidth' = c.bandwidth /\ requests' = c.requests
          /\ cacheHits' = c.cacheHits /\ cacheMisses' = c.cacheMisses
    /\ alarmSet' = FALSE /\ alarmIn' = 0
    /\ trackerPc' = "idle"
    /\ flush' = NoFlush
    /\ owed' = [bandwidth |-> flush.bandwidth, requests |-> flush.requests,
                cacheHits |-> flush.cacheHits, cacheMisses |-> flush.cacheMisses,
                voided |-> FALSE]
    /\ UNCHANGED <<siteId, domain,
                   initialized, billingBound, storage, sites, usage_hourly,
                   trackerResponse, recorded, cleared, raced, stopped>>
    /\ UNCHANGED <<workerVars, parserVars>>

\* The batched write failed: the counters stay, the next alarm is set
\* (part_004:241-248).
SiteUsageTracker_alarm_failed ==
    /\ ran' = "alarm"
    /\ trackerPc = "d1"
    /\ LET c == AfterFailedFlush(Live, flush)
       IN /\ bandwidth' = c.bandwidth /\ requests' = c.requests
          /\ cacheHits' = c.cacheHits /\ cacheMisses' = c.cacheMisses
    /\ alarmSet' = TRUE /\ alarmIn' = AlarmPeriod
    /\ trackerPc' = "idle"
    /\ flush' = NoFlush
    /\ owed' = [bandwidth |-> flush.bandwidth, requests |-> flush.requests,
                cacheHits |-> flush.cacheHits, cacheMisses |-> flush.cacheMisses,
                voided |-> FALSE]
    /\ UNCHANGED <<siteId, domain,
                   initialized, billingBound, storage, sites, usage_hourly,
                   trackerResponse, recorded, cleared, raced, stopped>>
    /\ UNCHANGED <<workerVars, parserVars>>

(***************************************************************************)
(* Eviction and re-hydration: the constructor runs again (part_004:60-101),*)
(* possibly under a deployment whose BILLING_DB binding differs.  The      *)
(* object is not evicted while a handler runs.                             *)
(***************************************************************************)
SiteUsageTracker_constructor(bound) ==
    /\ ran' = "constructor"
    /\ trackerPc = "idle"
    /\ siteId' = StoredOr(storage, "siteId", 0)
    /\ domain' = StoredOr(storage, "domain", "")
    /\ bandwidth' = StoredOr(storage, "bandwidth", 0)
    /\ requests' = StoredOr(storage, "requests", 0)
    /\ cacheHits' = StoredOr(storage, "cacheHits", 0)
    /\ cacheMisses' = StoredOr(storage, "cacheMisses", 0)
    /\ initialized' = (StoredOr(storage, "siteId", 0) # 0 \/ StoredOr(storage, "domain", "") # "")
    /\ billingBound' = bound
    /\ LET alarm == AlarmAfterConstructor([set |-> alarmSet, in |-> alarmIn], bound)
       IN alarmSet' = alarm.set /\ alarmIn' = alarm.in
    /\ stopped' = (stopped /\ ~bound)
    /\ UNCHANGED <<storage, trackerPc, flush, sites, usage_hourly, trackerResponse,
                   recorded, cleared, owed, raced>>
    /\ UNCHANGED <<workerVars, parserVars>>

(***************************************************************************)
(* Time passes: the pending alarm comes nearer.  An alarm that is due      *)
(* fires at some later moment (the handlers above), never before.          *)
(***************************************************************************)
TimePasses ==
    /\ ran' = "time"
    /\ alarmSet /\ alarmIn > 0
    /\ alarmIn' = alarmIn - 1
    /\ UNCHANGED <<siteId, domain, bandwidth, requests, cacheHits, cacheMisses,
                   initialized, billingBound, storage, alarmSet, trackerPc, flush,
                   sites, usage_hourly, trackerResponse, recorded, cleared, owed,
                   raced, stopped>>
    /\ UNCHANGED <<workerVars, parserVars>>

TrackerNext ==
    \/ \E bytes \in 0..MaxBytes, cacheHit \in BOOLEAN : SiteUsageTracker_fetch(bytes, cacheHit)
    \/ SiteUsageTracker_fetch_malformed
    \/ SiteUsageTracker_alarm_unbound
    \/ SiteUsageTracker_alarm_idle
    \/ SiteUsageTracker_alarm_begin
    \/ SiteUsageTracker_alarm_written
    \/ SiteUsageTracker_alarm_failed
    \/ \E bound \in BOOLEAN : SiteUsageTracker_constructor(bound)
    \/ TimePasses

(***************************************************************************)
(* The durable tracker when a write to state.storage can fail: the put     *)
(* rejects after the fields in memory have been changed.                   *)
(* Specification: FaultySpec.                                              *)
(***************************************************************************)
\* fetch(request) whose storage.put rejects (part_004:112-146): the identity
\* and the counters in memory have been updated (part_004:116-131), nothing
\* is stored, the catch answers 500.
SiteUsageTracker_fetch_put_failed(bytes, cacheHit) ==
    /\ ran' = "fetch"
    /\ recorded.calls < MaxRecords
    /\ initialized' = TRUE
    /\ siteId' = IF ~initialized THEN TenantId ELSE siteId
    /\ domain' = IF ~initialized THEN TenantDomain ELSE domain
    /\ bandwidth' = bandwidth + bytes
    /\ requests' = requests + 1
    /\ cacheHits' = IF cacheHit THEN cacheHits + 1 ELSE cacheHits
    /\ cacheMisses' = IF cacheHit THEN cacheMisses ELSE cacheMisses + 1
    /\ trackerResponse' = 500
    /\ recorded' = [bytes |-> recorded.bytes + bytes, calls |-> recorded.calls + 1]
    /\ raced' = (raced \/ trackerPc = "d1")
    /\ UNCHANGED <<billingBound, storage, alarmSet, trackerPc, flush, sites, usage_hourly,
                   cleared, owed, alarmIn, stopped>>
    /\ UNCHANGED <<workerVars, parserVars>>

\* alarm() whose storage.put rejects after the batched write succeeded
\* (part_004:221-248): the billing store has the amounts, the counters in
\* memory have been reduced (part_004:229-232), nothing is stored, the catch
\* logs and the next alarm is set.  (What was flushed is flushed again after
\* a restart; the model stops failing the put once the rollup holds more
\* requests than MaxRecords.)
SiteUsageTracker_alarm_put_failed ==
    /\ ran' = "alarm"
    /\ trackerPc = "d1"
    /\ HourlyRequestsAll <= MaxRecords
    /\ sites' = UpdateSites(sites, flush.siteId, flush)
    /\ usage_hourly' = UpsertHourly(usage_hourly, flush.siteId, flush)
    /\ LET c == AfterFlush(Live, flush)
       IN /\ bandwidth' = c.bandwidth /\ requests' = c.requests
          /\ cacheHits' = c.cacheHits /\ cacheMisses' = c.cacheMisses
    /\ alarmSet' = TRUE /\ alarmIn' = AlarmPeriod
    /\ trackerPc' = "idle"
    /\ flush' = NoFlush
    /\ owed' = NothingOwed
    /\ UNCHANGED <<siteId, domain, initialized, billingBound, storage,
                   trackerResponse, recorded, cleared, raced, stopped>>
    /\ UNCHANGED <<workerVars, parserVars>>

FaultyNext ==
    \/ TrackerNext
    \/ \E bytes \in 0..MaxBytes, cacheHit \in BOOLEAN :
          SiteUsageTracker_fetch_put_failed(bytes, cacheHit)
    \/ SiteUsageTracker_alarm_put_failed

(***************************************************************************)
(* Part I, the other tracker of the repository: the SiteUsageTracker that  *)
(* keeps its counters in memory only (src/unnamed/part_003).  It uses the  *)
(* same fields, the same alarm and the same billing store; it never reads  *)
(* or writes state.storage.  Specification: InMemorySpec.                  *)
(***************************************************************************)
\* Construction of a fresh object (part_003:36-49): the fields take their
\* initializers and the alarm is set, whatever is bound.
InMemoryTrackerInit ==
    /\ siteId = 0 /\ domain = ""
    /\ bandwidth = 0 /\ requests = 0 /\ cacheHits = 0 /\ cacheMisses = 0
    /\ initialized = FALSE
    /\ billingBound \in BOOLEAN
    /\ storage = EmptyStorage
    /\ alarmSet = TRUE /\ alarmIn = AlarmPeriod
    /\ stopped = FALSE
    /\ ran = "constructor"
    /\ trackerPc = "idle"
    /\ flush = NoFlush
    /\ sites = [id \in {TenantId} |->
                  [bandwidth_used_bytes |-> 0, cache_hits |-> 0, cache_misses |-> 0]]
    /\ usage_hourly = [id \in {} |-> 0]
    /\ trackerResponse = 0
    /\ recorded = [bytes |-> 0, calls |-> 0]
    /\ cleared = FALSE
    /\ owed = NothingOwed
    /\ raced = FALSE

\* fetch(request) (part_003:56-81): a body that is not JSON is answered 500
\* by the catch; otherwise the identity is taken from the first record
\* (`!this.siteId`) and the counters are raised.
InMemoryTracker_fetch(bytes, cacheHit, json) ==
    /\ ran' = "fetch"
    /\ recorded.calls < MaxRecords
    /\ IF json
         THEN /\ siteId' = IF siteId = 0 THEN TenantId ELSE siteId
              /\ domain' = IF siteId = 0 THEN TenantDomain ELSE domain
              /\ bandwidth' = bandwidth + bytes
              /\ requests' = requests + 1
              /\ cacheHits' = IF cacheHit THEN cacheHits + 1 ELSE cacheHits
              /\ cacheMisses' = IF cacheHit THEN cacheMisses ELSE cacheMisses + 1
              /\ trackerResponse' = 200
              /\ recorded' = [bytes |-> recorded.bytes + bytes,
                              calls |-> recorded.calls + 1]
              /\ raced' = (raced \/ trackerPc = "d1")
         ELSE /\ trackerResponse' = 500
              /\ UNCHANGED <<siteId, domain, bandwidth, requests, cacheHits,
                             cacheMisses, recorded, raced>>
    /\ UNCHANGED <<initialized, billingBound, storage, alarmSet, alarmIn, trackerPc,
                   flush, sites, usage_hourly, cleared, owed, stopped>>
    /\ UNCHANGED <<workerVars, parserVars>>

\* alarm() with no activity since the last flush: set the next alarm
\* (part_003:92-96).
InMemoryTracker_alarm_idle ==
    /\ ran' = "alarm"
    /\ trackerPc = "idle" /\ alarmSet /\ alarmIn = 0
    /\ requests = 0
    /\ alarmSet' = TRUE /\ alarmIn' = AlarmPeriod
    /\ UNCHANGED <<siteId, domain, bandwidth, requests, cacheHits, cacheMisses,
                   initialized, billingBound, storage, trackerPc, flush, sites,
                   usage_hourly, trackerResponse, recorded, cleared, owed, raced,
                   stopped>>
    /\ UNCHANGED <<workerVars, parserVars>>

\* alarm() with activity and no BILLING_DB bound: this.env.BILLING_DB.prepare
\* throws inside the try, the catch keeps the counters, the next alarm is set
\* (part_003:100-105, 139-146).
InMemoryTracker_alarm_unbound ==
    /\ ran' = "alarm"
    /\ trackerPc = "idle" /\ alarmSet /\ alarmIn = 0
    /\ requests # 0 /\ ~billingBound
    /\ alarmSet' = TRUE /\ alarmIn' = AlarmPeriod
    /\ UNCHANGED <<siteId, domain, bandwidth, requests, cacheHits, cacheMisses,
                   initialized, billingBound, storage, trackerPc, flush, sites,
                   usage_hourly, trackerResponse, recorded, cleared, owed, raced,
                   stopped>>
    /\ UNCHANGED <<workerVars, parserVars>>

\* alarm() with activity: the statements are bound to the counters as they
\* are, and the batched write is awaited (part_003:100-128).
InMemoryTracker_alarm_begin ==
    /\ ran' = "alarm"
    /\ trackerPc = "idle" /\ alarmSet /\ alarmIn = 0
    /\ requests # 0 /\ billingBound
    /\ flush' = [bandwidth |-> bandwidth, requests |-> requests, cacheHits |-> cacheHits,
                 cacheMisses |-> cacheMisses, siteId |-> siteId]
    /\ trackerPc' = "d1"
    /\ alarmSet' = FALSE /\ alarmIn' = 0
    /\ UNCHANGED <<siteId, domain, bandwidth, requests, cacheHits, cacheMisses,
                   initialized, billingBound, storage, sites, usage_hourly,
                   trackerResponse, recorded, cleared, owed, raced, stopped>>
    /\ UNCHANGED <<workerVars, parserVars>>

\* The batched write succeeded or failed: on success the counters are reset
\* to zero, on failure they stay; the next alarm is set (part_003:128-146).
InMemoryTracker_alarm_settles(written) ==
    /\ ran' = "alarm"
    /\ trackerPc = "d1"
    /\ IF written
         THEN /\ sites' = UpdateSites(sites, flush.siteId, flush)
              /\ usage_hourly' = UpsertHourly(usage_hourly, flush.siteId, flush)
              /\ bandwidth' = 0 /\ requests' = 0 /\ cacheHits' = 0 /\ cacheMisses' = 0
         ELSE UNCHANGED <<sites, usage_hourly, bandwidth, requests, cacheHits,
                          cacheMisses>>
    /\ alarmSet' = TRUE /\ alarmIn' = AlarmPeriod
    /\ trackerPc' = "idle"
    /\ flush' = NoFlush
    /\ UNCHANGED <<siteId, domain, initialized, billingBound, storage,
                   trackerResponse, recorded, cleared, owed, raced, stopped>>
    /\ UNCHANGED <<workerVars, parserVars>>

\* Eviction and re-hydration: the constructor runs again (part_003:36-49).
\* The fields take their initializers, nothing is loaded, and setAlarm is
\* called whatever alarm is pending and whatever is bound.
InMemoryTracker_constructor(bound) ==
    /\ ran' = "constructor"
    /\ trackerPc = "idle"
    /\ siteId' = 0 /\ domain' = ""
    /\ bandwidth' = 0 /\ requests' = 0 /\ cacheHits' = 0 /\ cacheMisses' = 0
    /\ billingBound' = bound
    /\ alarmSet' = AlarmSetNow.set /\ alarmIn' = AlarmSetNow.in
    /\ UNCHANGED <<initialized, storage, trackerPc, flush, sites, usage_hourly,
                   trackerResponse, recorded, cleared, owed, raced, stopped>>
    /\ UNCHANGED <<workerVars, parserVars>>

InMemoryNext ==
    \/ \E bytes \in 0..MaxBytes, cacheHit \in BOOLEAN, json \in BOOLEAN :
          InMemoryTracker_fetch(bytes, cacheHit, json)
    \/ InMemoryTracker_alarm_idle
    \/ InMemoryTracker_alarm_unbound
    \/ InMemoryTracker_alarm_begin
    \/ \E written \in BOOLEAN : InMemoryTracker_alarm_settles(written)
    \/ \E bound \in BOOLEAN : InMemoryTracker_constructor(bound)
    \/ TimePasses

(***************************************************************************)
(* Part II.  The request pipeline: the worker's fetch handler              *)
(* (src/unnamed/part_001), URL parsing and admission (src/src/validation.ts),*)
(* the cache port (src/src/cache.ts) and the origin fetcher                *)
(* (src/unnamed/part_004, lines 252-684).  Specification: PipeSpec.        *)
(*                                                                         *)
(* Strings are TLA+ strings; the operators below compute on their          *)
(* characters the way the JavaScript string methods do.                    *)
(***************************************************************************)
CharAt(s, i) == SubSeq(s, i, i)

\* String.prototype.startsWith / endsWith / includes / indexOf (1-based, 0 = absent)
StartsWith(s, p) == Len(s) >= Len(p) /\ SubSeq(s, 1, Len(p)) = p

EndsWith(s, p) == Len(s) >= Len(p) /\ SubSeq(s, Len(s) - Len(p) + 1, Len(s)) = p

Includes(s, p) == \E i \in 1..(Len(s) - Len(p) + 1) : SubSeq(s, i, i + Len(p) - 1) = p

IndexOf(s, p) ==
    IF Includes(s, p)
    THEN CHOOSE i \in 1..(Len(s) - Len(p) + 1) :
            /\ SubSeq(s, i, i + Len(p) - 1) = p
            /\ \A j \in 1..(i - 1) : SubSeq(s, j, j + Len(p) - 1) # p
    ELSE 0

\* String.prototype.split(sep): a sequence of strings
RECURSIVE Split(_, _)
Split(s, sep) ==
    LET i == IndexOf(s, sep)
    IN  IF i = 0 THEN <<s>>
        ELSE <<SubSeq(s, 1, i - 1)>> \o Split(SubSeq(s, i + Len(sep), Len(s)), sep)

\* Array.prototype.join(sep)
RECURSIVE Join(_, _)
Join(parts, sep) ==
    IF Len(parts) = 0 THEN ""
    ELSE IF Len(parts) = 1 THEN parts[1]
    ELSE parts[1] \o sep \o Join(Tail(parts), sep)

\* the printable ASCII characters in code order: 0x20 (space) .. 0x5F (_) and
\* 0x61 (a) .. 0x7E (~); the grave accent 0x60 cannot be written in a string
\* of this language and is left out of the alphabet
AsciiLow == " !\"#$%&'()*+,-./0123456789:;<=>?@ABCDEFGHIJKLMNOPQRSTUVWXYZ[\\]^_"

AsciiHigh == "abcdefghijklmnopqrstuvwxyz{|}~"

InAlphabet(code) == code \in (32..95) \cup (97..126)

\* String.fromCharCode and String.prototype.charCodeAt on this alphabet
fromCharCode(code) ==
    IF code <= 95 THEN CharAt(AsciiLow, code - 31) ELSE CharAt(AsciiHigh, code - 96)

charCodeAt(c) ==
    IF Includes(AsciiLow, c) THEN IndexOf(AsciiLow, c) + 31 ELSE IndexOf(AsciiHigh, c) + 96

AlphaLower == "abcdefghijklmnopqrstuvwxyz"

AlphaUpper == "ABCDEFGHIJKLMNOPQRSTUVWXYZ"

DigitChars == "0123456789"

HexUpper == "0123456789ABCDEF"

IsDigit(c) == Len(c) = 1 /\ Includes(DigitChars, c)

IsAlpha(c) == Len(c) = 1 /\ (Includes(AlphaLower, c) \/ Includes(AlphaUpper, c))

IsAlnum(c) == IsDigit(c) \/ IsAlpha(c)

AllChars(s, P(_)) == \A i \in 1..Len(s) : P(CharAt(s, i))

\* String.prototype.toLowerCase
RECURSIVE toLowerCase(_)
toLowerCase(s) ==
    IF Len(s) = 0 THEN ""
    ELSE LET c == CharAt(s, 1)
             l == IF Includes(AlphaUpper, c) THEN CharAt(AlphaLower, IndexOf(AlphaUpper, c)) ELSE c
         IN  l \o toLowerCase(SubSeq(s, 2, Len(s)))

\* String.prototype.trim (the white space of this alphabet is the space)
RECURSIVE trim(_)
trim(s) ==
    IF Len(s) = 0 THEN ""
    ELSE IF CharAt(s, 1) = " " THEN trim(SubSeq(s, 2, Len(s)))
    ELSE IF CharAt(s, Len(s)) = " " THEN trim(SubSeq(s, 1, Len(s) - 1))
    ELSE s

\* the value of a hexadecimal digit, -1 for any other character
HexVal(c) ==
    IF Includes(HexUpper, c) THEN IndexOf(HexUpper, c) - 1
    ELSE IF Includes("abcdef", c) THEN IndexOf("abcdef", c) + 9
    ELSE -1

\* decodeURIComponent: [ok |-> TRUE, value |-> the decoded string], or
\* [ok |-> FALSE] where it throws URIError: a % not followed by two
\* hexadecimal digits, or an escaped byte >= 0x80 that is not part of a UTF-8
\* sequence.  Escapes of characters outside the alphabet (control characters,
\* the grave accent) are not among the inputs of the model.
RECURSIVE decodeURIComponent(_)
decodeURIComponent(s) ==
    IF Len(s) = 0 THEN [ok |-> TRUE, value |-> ""]
    ELSE IF CharAt(s, 1) # "%"
    THEN LET rest == decodeURIComponent(SubSeq(s, 2, Len(s)))
         IN  IF rest.ok THEN [ok |-> TRUE, value |-> CharAt(s, 1) \o rest.value]
             ELSE [ok |-> FALSE, value |-> ""]
    ELSE IF Len(s) < 3 \/ HexVal(CharAt(s, 2)) < 0 \/ HexVal(CharAt(s, 3)) < 0
    THEN [ok |-> FALSE, value |-> ""]
    ELSE LET code == 16 * HexVal(CharAt(s, 2)) + HexVal(CharAt(s, 3))
             rest == decodeURIComponent(SubSeq(s, 4, Len(s)))
         IN  IF ~InAlphabet(code) \/ ~rest.ok THEN [ok |-> FALSE, value |-> ""]
             ELSE [ok |-> TRUE, value |-> fromCharCode(code) \o rest.value]

\* encodeURIComponent: every character but A-Z a-z 0-9 - _ . ! ~ * ' ( )
\* becomes % and the two upper-case hexadecimal digits of its code
RECURSIVE encodeURIComponent(_)
encodeURIComponent(s) ==
    IF Len(s) = 0 THEN ""
    ELSE LET c == CharAt(s, 1)
             code == charCodeAt(c)
             e == IF IsAlnum(c) \/ Includes("-_.!~*'()", c) THEN c
                  ELSE "%" \o CharAt(HexUpper, (code \div 16) + 1)
                           \o CharAt(HexUpper, (code % 16) + 1)
         IN  e \o encodeURIComponent(SubSeq(s, 2, Len(s)))

(***************************************************************************)
(* src/src/validation.ts                                                   *)
(***************************************************************************)
\* A mutant of NormalizeSegments: a ".." segment is dropped like a "."
\* segment, nothing is popped.
RECURSIVE NormalizeSegmentsNoPop(_, _)
NormalizeSegmentsNoPop(segments, normalized) ==
    IF Len(segments) = 0 THEN normalized
    ELSE LET segment == Head(segments)
         IN  IF segment \in {".", ".."}
             THEN NormalizeSegmentsNoPop(Tail(segments), normalized)
             ELSE NormalizeSegmentsNoPop(Tail(segments), Append(normalized, segment))

\* normalizePath (validation.ts:25-40): the loop over the segments
RECURSIVE NormalizeSegments(_, _)
NormalizeSegments(segments, normalized) ==
    IF Len(segments) = 0 THEN normalized
    ELSE LET segment == Head(segments)
         IN  IF segment = ".."
             THEN NormalizeSegments(Tail(segments),
                                    IF Len(normalized) = 0 THEN normalized
                                    ELSE SubSeq(normalized, 1, Len(normalized) - 1))
             ELSE IF segment # "."
             THEN NormalizeSegments(Tail(segments), Append(normalized, segment))
             ELSE NormalizeSegments(Tail(segments), normalized)

normalizePath(path) ==
    "/" \o Join(NormalizeSegments(SelectSeq(Split(path, "/"), LAMBDA s : s # ""), <<>>), "/")

\* String.prototype.replace(/^\/+/, '')
RECURSIVE StripLeadingSlashes(_)
StripLeadingSlashes(s) ==
    IF Len(s) > 0 /\ CharAt(s, 1) = "/" THEN StripLeadingSlashes(SubSeq(s, 2, Len(s))) ELSE s

\* the label grammar of domainRegex (validation.ts:148):
\* [a-z0-9](?:[a-z0-9-]{0,61}[a-z0-9])? , case-insensitive
IsDomainLabel(label) ==
    /\ Len(label) \in 1..63
    /\ IsAlnum(CharAt(label, 1))
    /\ IsAlnum(CharAt(label, Len(label)))
    /\ \A i \in 1..Len(label) : IsAlnum(CharAt(label, i)) \/ CharAt(label, i) = "-"

\* /^(\d{1,3})\.(\d{1,3})\.(\d{1,3})\.(\d{1,3})$/ (validation.ts:111)
IsIPv4Shaped(s) ==
    LET parts == Split(s, ".")
    IN  /\ Len(parts) = 4
        /\ \A i \in 1..4 : Len(parts[i]) \in 1..3 /\ AllChars(parts[i], IsDigit)

\* internalPatterns (validation.ts:123-139), tested against the lower-cased name
MatchesInternalPattern(lowerDomain) ==
    \/ \E suffix \in {".local", ".localhost", ".internal", ".lan", ".home", ".corp",
                      ".private", ".compute.internal", ".ec2.internal"} :
          EndsWith(lowerDomain, suffix)
    \/ lowerDomain = "metadata.google.internal"
    \/ \E prefix \in {"instance-data.", "metadata.", "169.254."} :
          StartsWith(lowerDomain, prefix)

\* the mutant of isValidDomain that forgets the internal patterns
isValidDomainNoInternal(d) ==
    LET labels == Split(d, ".")
    IN  /\ Len(trim(d)) > 0
        /\ toLowerCase(d) \notin {"localhost", "localhost.localdomain", "broadcasthost"}
        /\ ~IsIPv4Shaped(d)
        /\ ~Includes(d, ":")
        /\ Len(labels) >= 2
        /\ \A i \in 1..(Len(labels) - 1) : IsDomainLabel(labels[i])
        /\ Len(labels[Len(labels)]) >= 2
        /\ AllChars(labels[Len(labels)], IsAlpha)

\* isValidDomain (validation.ts:92-150)
isValidDomain(d) ==
    LET lowerDomain == toLowerCase(d)
        labels == Split(d, ".")
    IN  /\ Len(d) > 0 /\ Len(trim(d)) > 0
        /\ lowerDomain \notin {"localhost", "localhost.localdomain", "broadcasthost"}
        /\ ~IsIPv4Shaped(d)
        /\ ~(Includes(d, ":") \/ (StartsWith(d, "[") /\ EndsWith(d, "]")))
        /\ ~MatchesInternalPattern(lowerDomain)
        /\ Len(labels) >= 2
        /\ \A i \in 1..(Len(labels) - 1) : IsDomainLabel(labels[i])
        /\ Len(labels[Len(labels)]) >= 2
        /\ AllChars(labels[Len(labels)], IsAlpha)

\* what parseUrl returns when it throws
ParseError(message) ==
    [ok |-> FALSE, error |-> message, domain |-> "", path |-> "", sourceUrl |-> "",
     cacheKey |-> "", forceReprocess |-> FALSE, viewImage |-> FALSE]

\* parseUrl (validation.ts:45-84).  url is the URL of the request:
\* [pathname, force, view], the last two the values searchParams.get returns
\* ("null" where the parameter is absent).
parseUrl(url) ==
    LET decoded == decodeURIComponent(url.pathname)
        pathParts == Split(StripLeadingSlashes(decoded.value), "/")
        host == toLowerCase(pathParts[1])
        rawPath == "/" \o Join(Tail(pathParts), "/")
        path == normalizePath(rawPath)
        encodedPath == Join([i \in 1..Len(Split(path, "/")) |->
                                encodeURIComponent(Split(path, "/")[i])], "/")
    IN  IF ~decoded.ok THEN ParseError("URI malformed")
        ELSE IF Len(pathParts) < 2 THEN ParseError("Invalid URL format")
        ELSE IF path = "/" \/ path = "" THEN ParseError("Invalid path")
        ELSE IF ~isValidDomain(host) THEN ParseError("Invalid domain")
        ELSE [ok |-> TRUE, error |-> "", domain |-> host, path |-> path,
              sourceUrl |-> "https://" \o host \o encodedPath,
              cacheKey |-> host \o path,
              forceReprocess |-> url.force \in {"true", "1"},
              viewImage |-> url.view \in {"true", "1"}]

\* A mutant of matchesDomainPattern: the pattern is compared as it is, the
\* wildcard form has no meaning.
matchesDomainPatternExact(d, pattern) == toLowerCase(d) = trim(toLowerCase(pattern))

\* matchesDomainPattern (validation.ts:162-181)
matchesDomainPattern(d, pattern) ==
    LET lowerDomain == toLowerCase(d)
        lowerPattern == trim(toLowerCase(pattern))
    IN  IF Len(lowerPattern) = 0 THEN FALSE
        ELSE IF StartsWith(lowerPattern, "*.")
        THEN EndsWith(lowerDomain, "." \o SubSeq(lowerPattern, 3, Len(lowerPattern)))
        ELSE lowerDomain = lowerPattern

\* matchesDomainList (validation.ts:186-193)
matchesDomainList(d, list) ==
    IF Len(list) = 0 \/ trim(list) = "" THEN FALSE
    ELSE LET patterns == SelectSeq([i \in 1..Len(Split(list, ",")) |-> trim(Split(list, ",")[i])],
                                   LAMBDA p : p # "")
         IN  \E i \in 1..Len(patterns) : matchesDomainPattern(d, patterns[i])

\* what getDomainRecords makes of the value stored in the registry under a
\* host (validation.ts:204-219).  A stored value [kind, records] is of kind
\* "absent" (kv.get gives null), "malformed" (JSON.parse throws), "object"
\* (JSON that is no array) or "array" (its records are [site_id, status]);
\* failed is a kv.get that throws.
getDomainRecords(value, failed) ==
    IF failed \/ value.kind # "array" THEN <<>> ELSE value.records

\* A mutant of hasActive: any record will do, whatever its status.
hasActiveOrNot(records) == Len(records) > 0

\* records.some(r => r.status === 'active') (validation.ts:306)
hasActive(records) == \E i \in 1..Len(records) : records[i].status = "active"

\* validateOrigin (validation.ts:231-319).  e is the environment; value and
\* failed are what the registry read (if one is made) meets.
validateOrigin(d, e, value, failed) ==
    LET mode == IF e.ORIGIN_MODE = "" THEN "open" ELSE e.ORIGIN_MODE
        configBlocked == e.BLOCKED_ORIGINS
        records == IF e.ORIGINS_KV THEN getDomainRecords(value, failed) ELSE <<>>
        Deny(reason, source, recs) ==
            [allowed |-> FALSE, reason |-> reason, source |-> source, domain_records |-> recs]
    IN  IF configBlocked = "*" THEN Deny("blocked", "config", <<>>)
        ELSE IF configBlocked # "" /\ matchesDomainList(d, configBlocked)
        THEN Deny("blocked", "config", <<>>)
        ELSE IF mode = "open"
        THEN [allowed |-> TRUE, reason |-> "allowed", source |-> "default",
              domain_records |-> records]
        ELSE IF mode = "list"
        THEN IF e.ALLOWED_ORIGINS = "" THEN Deny("not_in_allowlist", "config", <<>>)
             ELSE IF matchesDomainList(d, e.ALLOWED_ORIGINS)
             THEN [allowed |-> TRUE, reason |-> "allowed", source |-> "config",
                   domain_records |-> records]
             ELSE Deny("not_in_allowlist", "config", <<>>)
        ELSE IF mode = "registered"
        THEN IF ~e.ORIGINS_KV THEN Deny("not_in_allowlist", "kv", <<>>)
             ELSE IF Len(records) = 0 THEN Deny("not_in_allowlist", "kv", <<>>)
             ELSE IF hasActive(records)
             THEN [allowed |-> TRUE, reason |-> "allowed", source |-> "kv",
                   domain_records |-> records]
             ELSE Deny("blocked", "kv", records)
        ELSE Deny("not_in_allowlist", "config", <<>>)

\* whether validateOrigin reads the registry for this host (validation.ts:255-258,
\* 278-281, 299): only then can the read fail
ReadsRegistry(d, e) ==
    /\ e.ORIGINS_KV
    /\ e.BLOCKED_ORIGINS # "*"
    /\ ~(e.BLOCKED_ORIGINS # "" /\ matchesDomainList(d, e.BLOCKED_ORIGINS))
    /\ \/ e.ORIGIN_MODE \in {"", "open", "registered"}
       \/ e.ORIGIN_MODE = "list" /\ e.ALLOWED_ORIGINS # ""
                                 /\ matchesDomainList(d, e.ALLOWED_ORIGINS)

\* new URL(url) (validation.ts:337) for absolute URLs scheme://authority/path:
\* the parts validateUrlForFetch reads.  The default port of the scheme is
\* serialized as the empty string.
NotAURL ==
    [ok |-> FALSE, protocol |-> "", username |-> "", password |-> "", port |-> "",
     hostname |-> ""]

\* the host and the port of an authority without its userinfo
ParseHostPort(protocol, username, password, hostport, c) ==
    LET rawPort == IF c = 0 THEN "" ELSE SubSeq(hostport, c + 1, Len(hostport))
    IN  IF Len(hostport) = 0 \/ ~AllChars(rawPort, IsDigit) THEN NotAURL
        ELSE [ok |-> TRUE,
              protocol |-> protocol,
              username |-> username,
              password |-> password,
              port |-> IF (protocol = "https:" /\ rawPort = "443")
                          \/ (protocol = "http:" /\ rawPort = "80") THEN "" ELSE rawPort,
              hostname |-> toLowerCase(IF c = 0 THEN hostport ELSE SubSeq(hostport, 1, c - 1))]

\* userinfo is what precedes the "@" of the authority, split at its ":"
ParseUserinfo(protocol, userinfo, colon, hostport) ==
    ParseHostPort(protocol,
                  IF colon = 0 THEN userinfo ELSE SubSeq(userinfo, 1, colon - 1),
                  IF colon = 0 THEN "" ELSE SubSeq(userinfo, colon + 1, Len(userinfo)),
                  hostport, IndexOf(hostport, ":"))

ParseAuthority(protocol, authority, at) ==
    IF at = 0 THEN ParseUserinfo(protocol, "", 0, authority)
    ELSE ParseUserinfo(protocol, SubSeq(authority, 1, at - 1),
                       IndexOf(SubSeq(authority, 1, at - 1), ":"),
                       SubSeq(authority, at + 1, Len(authority)))

\* the authority runs from the "://" to the next "/"
ParseAfterScheme(protocol, rest, j) ==
    IF j = 0 THEN ParseAuthority(protocol, rest, IndexOf(rest, "@"))
    ELSE ParseAuthority(protocol, SubSeq(rest, 1, j - 1), IndexOf(SubSeq(rest, 1, j - 1), "@"))

ParseScheme(s, i) ==
    IF i <= 1 THEN NotAURL
    ELSE ParseAfterScheme(toLowerCase(SubSeq(s, 1, i - 1)) \o ":",
                          SubSeq(s, i + 3, Len(s)),
                          IndexOf(SubSeq(s, i + 3, Len(s)), "/"))

ParseURL(s) == ParseScheme(s, IndexOf(s, "://"))

\* the mutant of validateUrlForFetch that accepts every URL it can parse
AcceptParsedUrl(parsed) == [valid |-> parsed.ok, domain |-> parsed.hostname, reason |-> ""]

validateUrlForFetchAny(url) == AcceptParsedUrl(ParseURL(url))

\* the checks of validateUrlForFetch on the parsed URL (validation.ts:339-362)
CheckParsedUrl(parsed) ==
    LET Refuse(reason) == [valid |-> FALSE, domain |-> "", reason |-> reason]
    IN  IF ~parsed.ok THEN Refuse("invalid_url")
        ELSE IF parsed.protocol \notin {"http:", "https:"} THEN Refuse("invalid_scheme")
        ELSE IF parsed.username # "" \/ parsed.password # "" THEN Refuse("credentials_in_url")
        ELSE IF parsed.port \notin {"", "80", "443"} THEN Refuse("non_standard_port")
        ELSE IF ~isValidDomain(parsed.hostname) THEN Refuse("invalid_domain")
        ELSE [valid |-> TRUE, domain |-> parsed.hostname, reason |-> ""]

\* validateUrlForFetch (validation.ts:331-365)
validateUrlForFetch(url) == CheckParsedUrl(ParseURL(url))

\* contentType.toLowerCase().split(';')[0].trim() (validation.ts:379)
MimeType(contentType) == trim(Split(toLowerCase(contentType), ";")[1])

\* isImageContentType (validation.ts:374-389)
isImageContentType(contentType) ==
    /\ contentType # ""
    /\ MimeType(contentType) \in
          {"image/jpeg", "image/jpg", "image/png", "image/gif", "image/webp",
           "image/avif", "image/svg+xml", "image/bmp", "image/tiff", "image/x-icon",
           "image/heic", "image/heif", "image/jxl"}

\* isVideoContentType (validation.ts:394-410)
isVideoContentType(contentType) ==
    /\ contentType # ""
    /\ MimeType(contentType) \in
          {"video/mp4", "video/webm", "video/ogg", "video/quicktime",
           "video/x-matroska", "video/x-m4v", "video/mp2t"}

\* isAudioContentType (validation.ts:415-432)
isAudioContentType(contentType) ==
    /\ contentType # ""
    /\ MimeType(contentType) \in
          {"audio/mpeg", "audio/ogg", "audio/wav", "audio/webm", "audio/x-m4a",
           "audio/mp4", "audio/aac", "audio/flac"}

\* isHLSContentType (validation.ts:437-450)
isHLSContentType(contentType) ==
    /\ contentType # ""
    /\ MimeType(contentType) \in
          {"application/vnd.apple.mpegurl", "application/x-mpegurl",
           "audio/mpegurl", "audio/x-mpegurl"}

\* isMediaContentType (validation.ts:455-460)
isMediaContentType(contentType) ==
    \/ isImageContentType(contentType)
    \/ isVideoContentType(contentType)
    \/ isAudioContentType(contentType)
    \/ isHLSContentType(contentType)

(***************************************************************************)
(* range.ts (src/unnamed/part_007) and the pure functions of origin.ts     *)
(* (src/unnamed/part_004) and cache.ts (src/src/cache.ts).                 *)
(***************************************************************************)
\* the longest prefix of s made of decimal digits
RECURSIVE LeadingDigits(_)
LeadingDigits(s) ==
    IF Len(s) > 0 /\ IsDigit(CharAt(s, 1))
    THEN CharAt(s, 1) \o LeadingDigits(SubSeq(s, 2, Len(s)))
    ELSE ""

\* the number a string of decimal digits denotes
RECURSIVE DigitsValue(_)
DigitsValue(s) ==
    IF Len(s) = 0 THEN 0
    ELSE 10 * DigitsValue(SubSeq(s, 1, Len(s) - 1))
         + (IndexOf(DigitChars, CharAt(s, Len(s))) - 1)

\* parseInt(s, 10): leading white space and one sign are skipped, the digits
\* that follow are read, anything after them is ignored; NaN without a digit
parseInt(s) ==
    LET t == trim(s)
        signed == Len(t) > 0 /\ CharAt(t, 1) \in {"+", "-"}
        digits == LeadingDigits(IF signed THEN SubSeq(t, 2, Len(t)) ELSE t)
    IN  IF Len(digits) = 0 THEN [nan |-> TRUE, value |-> 0]
        ELSE [nan |-> FALSE,
              value |-> IF signed /\ CharAt(t, 1) = "-" THEN 0 - DigitsValue(digits)
                        ELSE DigitsValue(digits)]

Max(a, b) == IF a >= b THEN a ELSE b

Min(a, b) == IF a <= b THEN a ELSE b

\* the null RangeInfo
NoRange == [ok |-> FALSE, start |-> 0, end |-> 0, length |-> 0, isPartial |-> FALSE]

\* the mutant of RangeOf that takes the length for the distance of the ends
RangeOfShort(start, end, totalSize) ==
    [ok |-> TRUE, start |-> start, end |-> end, length |-> end - start,
     isPartial |-> ~(start = 0 /\ end = totalSize - 1)]

\* the RangeInfo parseRangeHeader returns (part_007:85-90)
RangeOf(start, end, totalSize) ==
    [ok |-> TRUE, start |-> start, end |-> end, length |-> end - start + 1,
     isPartial |-> ~(start = 0 /\ end = totalSize - 1)]

\* the mutant of CheckedRange that does not clamp the end to the size
CheckedRangeUnclamped(start, end, totalSize) ==
    IF start > end \/ start >= totalSize THEN NoRange
    ELSE RangeOf(start, end, totalSize)

\* the end is clamped to the size and the range validated (part_007:77-90)
CheckedRange(start, end, totalSize) ==
    IF start > Min(end, totalSize - 1) \/ start >= totalSize THEN NoRange
    ELSE RangeOf(start, Min(end, totalSize - 1), totalSize)

\* parseRangeHeader (part_007:31-92); the absent header is the empty string
parseRangeHeader(rangeHeader, totalSize) ==
    LET rangeSpec == trim(SubSeq(rangeHeader, 7, Len(rangeHeader)))
        dashIndex == IndexOf(rangeSpec, "-")
        startStr == SubSeq(rangeSpec, 1, dashIndex - 1)
        endStr == SubSeq(rangeSpec, dashIndex + 1, Len(rangeSpec))
        s == parseInt(startStr)
        e == parseInt(endStr)
        Checked(start, end0) == CheckedRange(start, end0, totalSize)
    IN  IF rangeHeader = "" \/ ~StartsWith(rangeHeader, "bytes=") THEN NoRange
        ELSE IF Includes(rangeSpec, ",") THEN NoRange
        ELSE IF dashIndex = 0 THEN NoRange
        ELSE IF startStr = ""
        THEN IF e.nan \/ e.value <= 0 THEN NoRange
             ELSE Checked(Max(0, totalSize - e.value), totalSize - 1)
        ELSE IF endStr = ""
        THEN IF s.nan \/ s.value < 0 THEN NoRange
             ELSE Checked(s.value, totalSize - 1)
        ELSE IF s.nan \/ e.nan \/ s.value < 0 THEN NoRange
             ELSE Checked(s.value, e.value)

\* rangeHeader.match(/^bytes=(\d+)-(\d+)$/) with start <= end (part_001:104-118):
\* isStandardRange and the two numbers
StandardRange(rangeHeader) ==
    LET spec == SubSeq(rangeHeader, 7, Len(rangeHeader))
        dash == IndexOf(spec, "-")
        a == SubSeq(spec, 1, dash - 1)
        b == SubSeq(spec, dash + 1, Len(spec))
        matches == /\ StartsWith(rangeHeader, "bytes=")
                   /\ dash > 1
                   /\ Len(b) > 0
                   /\ AllChars(a, IsDigit)
                   /\ AllChars(b, IsDigit)
    IN  IF matches /\ DigitsValue(a) <= DigitsValue(b)
        THEN [is |-> TRUE, start |-> DigitsValue(a), end |-> DigitsValue(b)]
        ELSE [is |-> FALSE, start |-> 0, end |-> 0]

\* detectBlockedResponse(response, 'media') (part_004:356-411)
detectBlockedResponse(response) ==
    LET contentType == toLowerCase(response.contentType)
    IN  \/ response.status \in {401, 403, 429}
        \/ Includes(contentType, "text/html")
        \/ StartsWith(contentType, "text/")
        \/ Includes(contentType, "application/json")

\* the mutant of validateResponseSize that turns away a body of exactly the
\* limit
validateResponseSizeBelow(response, maxSize) ==
    LET size == parseInt(response.contentLength)
    IN  IF response.contentLength = "" \/ size.nan THEN [valid |-> TRUE, size |-> -1]
        ELSE IF size.value >= maxSize THEN [valid |-> FALSE, size |-> size.value]
        ELSE [valid |-> TRUE, size |-> size.value]

\* validateResponseSize (part_004:538-566); the size null is -1
validateResponseSize(response, maxSize) ==
    LET size == parseInt(response.contentLength)
    IN  IF response.contentLength = "" \/ size.nan THEN [valid |-> TRUE, size |-> -1]
        ELSE IF size.value > maxSize THEN [valid |-> FALSE, size |-> size.value]
        ELSE [valid |-> TRUE, size |-> size.value]

\* handleConditionalRequest (cache.ts:42-60): a 304 is due
handleConditionalRequest(ifNoneMatch, etag) == ifNoneMatch # "" /\ ifNoneMatch = etag

(***************************************************************************)
(* The worker's world: deployments, the registry, the object store, the    *)
(* requests and the origin.                                                *)
(***************************************************************************)
\* env (types.ts:4-14); MAX_FILE_SIZE stands for parseFileSize(env.MAX_FILE_SIZE)
EnvOf(mode, blocked, allowed, kvBound) ==
    [ORIGIN_MODE |-> mode, BLOCKED_ORIGINS |-> blocked, ALLOWED_ORIGINS |-> allowed,
     ORIGINS_KV |-> kvBound, MAX_FILE_SIZE |-> MaxFileSize]

\* The deployments of the model: an environment and the entry point, named
\* by the route HEAD takes.  part_001:168-239 answers HEAD inline, after
\* admission; the entry points src/src/index.ts:404-409 and part_002:95-98
\* hand HEAD to handleHeadRequest (part_005:42-69).
Deployments ==
    { [env |-> EnvOf("", "", "", FALSE), headRoute |-> "inline"],
      [env |-> EnvOf("registered", "", "", TRUE), headRoute |-> "inline"],
      [env |-> EnvOf("list", "", "example.com, *.example.com", FALSE),
       headRoute |-> "handleHeadRequest"] }

\* the registry (ORIGINS_KV): the value stored under a host
RegistryValue(host) ==
    IF host = "example.com"
    THEN [kind |-> "array", records |-> <<[site_id |-> TenantId, status |-> "active"]>>]
    ELSE IF host = "other.org"
    THEN [kind |-> "array", records |-> <<[site_id |-> TenantId + 1, status |-> "suspended"]>>]
    ELSE [kind |-> "absent", records |-> <<>>]

\* the URL of a request: pathname and what searchParams.get gives for force and view
Url(pathname, force) == [pathname |-> pathname, force |-> force, view |-> "null"]

\* a request: method, URL, Range and If-None-Match headers ("" where absent)
Request(method, url, range, ifNoneMatch) ==
    [method |-> method, url |-> url, range |-> range, ifNoneMatch |-> ifNoneMatch]

NoRequest == Request("", Url("", "null"), "", "")

\* R2's ETag of an object is a digest of its content
EtagOf(body) == "md5:" \o body

\* an object of the store as a read returns it; a head carries no body
NoObject ==
    [present |-> FALSE, hasBody |-> FALSE, body |-> "", size |-> 0, contentType |-> "",
     etag |-> "", uploaded |-> 0]

Object(body, contentType, uploaded) ==
    [present |-> TRUE, hasBody |-> TRUE, body |-> body, size |-> Len(body),
     contentType |-> contentType, etag |-> EtagOf(body), uploaded |-> uploaded]

\* the R2Object of an object: its metadata, no body
MetadataOf(object) == [object EXCEPT !.hasBody = FALSE, !.body = ""]

\* env.R2.head(key) (cache.ts:22-27)
getCacheHead(store, key) ==
    IF store[key].present THEN [store[key] EXCEPT !.hasBody = FALSE, !.body = ""]
    ELSE NoObject

\* env.R2.get(key) (cache.ts:12-17)
getFromCache(store, key) == store[key]

\* env.R2.get(key, {range: {offset, length}}) (cache.ts:69-83): the body is the
\* part of the object the range covers, size is the size of the whole object
getFromCacheWithRange(store, key, start, length) ==
    IF store[key].present
    THEN [store[key] EXCEPT !.body = SubSeq(store[key].body, start + 1,
                                           Min(start + length, Len(store[key].body)))]
    ELSE NoObject

\* the paths of the model and the keys parseUrl gives them
Pathnames ==
    {"/example.com/a.jpg", "/other.org/b.png", "/evil.local/x.jpg", "/127.0.0.1/x.jpg",
     "/localhost/x.jpg", "/exa_mple.com/x.jpg", "/example.com", "/%", "/health", "/stats"}

ParsedOf == [p \in Pathnames, f \in {"null", "1"} |-> parseUrl(Url(p, f))]

Parsed(url) == ParsedOf[url.pathname, url.force]

CacheKeys == {ParsedOf[p, "null"].cacheKey : p \in Pathnames} \ {""}

\* the requests of the model
Requests ==
    {Request("GET", Url(p, "null"), "", "") : p \in Pathnames}
    \cup {Request("GET", Url("/example.com/a.jpg", "1"), "", "")}
    \cup {Request("GET", Url("/example.com/a.jpg", "null"), r, "") :
            r \in {"bytes=0-", "bytes=0-0", "bytes=-1", "bytes=-2", "bytes=2-",
                   "bytes=5-6"}}
    \cup {Request("GET", Url("/example.com/a.jpg", "null"), r, EtagOf("ab")) :
            r \in {"", "bytes=5-6"}}
    \cup {Request("GET", Url("/other.org/b.png", "null"), "bytes=0-", "")}
    \cup {Request("HEAD", Url("/example.com/a.jpg", f), "", "") : f \in {"null", "1"}}
    \cup {Request("HEAD", Url(p, "null"), "", "") :
            p \in {"/other.org/b.png", "/evil.local/x.jpg"}}
    \cup {Request(m, Url("/example.com/a.jpg", "null"), "", "") :
            m \in {"OPTIONS", "DELETE", "POST"}}
    \cup {Request("DELETE", Url("/evil.local/x.jpg", "null"), "", "")}

\* a string of n bytes
RECURSIVE Bytes(_)
Bytes(n) == IF n = 0 THEN "" ELSE "z" \o Bytes(n - 1)

\* what the origin answers to fetch(url): the status, the Content-Type and
\* Content-Length headers, the body (hasBody: response.body is not null) and
\* response.url, the URL the runtime ended at after following redirects;
\* throws: fetch rejects (network error, abort on timeout)
OriginResponse(status, contentType, contentLength, body, finalUrl) ==
    [throws |-> FALSE, status |-> status, contentType |-> contentType,
     contentLength |-> contentLength, body |-> body, hasBody |-> TRUE, url |-> finalUrl]

\* the origin of example.com answers in every way of the model, the other
\* hosts with a picture or with 404
OriginOutcomes(url) ==
    IF url # "https://example.com/a.jpg"
    THEN { OriginResponse(200, "image/png", "2", "ab", url),
           OriginResponse(404, "", "2", "no", url) }
    ELSE
    { [OriginResponse(0, "", "", "", url) EXCEPT !.throws = TRUE],
      OriginResponse(200, "image/jpeg", "2", "ab", url),
      OriginResponse(200, "image/jpeg", ToString(MaxFileSize), Bytes(MaxFileSize), url),
      OriginResponse(200, "Image/PNG; q=1", "", "ab", url),
      OriginResponse(200, "image/png", "", Bytes(MaxFileSize + 1), url),
      OriginResponse(200, "video/mp4", ToString(MaxFileSize + 1), Bytes(MaxFileSize + 1), url),
      OriginResponse(200, "text/html; charset=utf-8", "2", "<>", url),
      OriginResponse(403, "image/jpeg", "2", "no", url),
      OriginResponse(404, "", "2", "no", url),
      [OriginResponse(200, "image/gif", "0", "", url) EXCEPT !.hasBody = FALSE],
      OriginResponse(200, "image/jpeg", "2", "ab", "https://cdn.example.com/a.jpg"),
      OriginResponse(200, "image/jpeg", "2", "ab", "http://169.254.169.254/latest") }

\* The inputs of the model are finite, so the checks of the program are
\* evaluated once over them and looked up afterwards.
FetchUrls ==
    {ParsedOf[p, f].sourceUrl : p \in Pathnames, f \in {"null", "1"}}
    \cup {"https://cdn.example.com/a.jpg", "http://169.254.169.254/latest"}

UrlForFetchOf == [u \in FetchUrls |-> validateUrlForFetch(u)]

OriginOutcomesOf == [u \in FetchUrls |-> OriginOutcomes(u)]

\* the host a request path names: its first segment, lower-cased
PathHost(pathname) == toLowerCase(Split(StripLeadingSlashes(pathname), "/")[1])

\* the hosts the paths and the URLs name
Hosts ==
    {PathHost(p) : p \in Pathnames} \cup {ParseURL(u).hostname : u \in FetchUrls} \cup {""}

OriginOf ==
    [d \in Hosts, e \in {dep.env : dep \in Deployments}, failed \in BOOLEAN |->
        validateOrigin(d, e, RegistryValue(d), failed)]

ContentTypes ==
    LET received == {o.contentType : o \in UNION {OriginOutcomes(u) : u \in FetchUrls}}
    IN  received \cup {toLowerCase(t) : t \in received} \cup {"text/html"}

MediaContentTypeOf == [t \in ContentTypes |-> isMediaContentType(t)]

NoOrigin == [OriginResponse(0, "", "", "", "") EXCEPT !.hasBody = FALSE]

(***************************************************************************)
(* Responses, and the state of one request being served.                   *)
(***************************************************************************)
\* A response: status, X-ImgPro-Status, Location, body, ETag, Last-Modified
\* (0 where absent), Content-Length (-1 where absent), Content-Range
\* (<<>> where absent, <<start, end, total>>, <<-1, -1, total>> for bytes */total)
Response(status, xstatus, location, body, etag, lastModified, contentLength, contentRange) ==
    [status |-> status, xstatus |-> xstatus, location |-> location, body |-> body,
     etag |-> etag, lastModified |-> lastModified, contentLength |-> contentLength,
     contentRange |-> contentRange]

NoResponse == Response(0, "", "", "", "", 0, -1, <<>>)

\* sizeValidation before validateResponseSize has been called
NotValidated == [valid |-> FALSE, size |-> -1]

\* the 302 to the source URL, with or without X-ImgPro-Status: redirect
Redirect(sourceUrl) == Response(302, "redirect", sourceUrl, "", "", 0, -1, <<>>)

PlainRedirect(sourceUrl) == Response(302, "", sourceUrl, "", "", 0, -1, <<>>)

\* the mutant of ErrorFloor that surfaces the error
ErrorFloorSurfaced(url) == Response(500, "", "", "", "", 0, -1, <<>>)

\* the catch block of fetch (part_001:642-664): parse the URL again and
\* redirect to the source URL; 400 if the URL does not parse
RedirectOrBadRequest(parsed) ==
    IF parsed.ok THEN Redirect(parsed.sourceUrl)
    ELSE Response(400, "", "", "", "", 0, -1, <<>>)

ErrorFloor(url) == RedirectOrBadRequest(Parsed(url))

NoValidation == [allowed |-> FALSE, reason |-> "", source |-> "", domain_records |-> <<>>]

\* what is kept of one request: where its handler stands (pc), the locals that
\* live across its awaits (parsed, validation, cacheResult, rangeData, origin),
\* its response, the usage records it has issued (trackUsage calls), its
\* background work (put, delete, the size-limited stream of the origin body
\* and the client's side of a streamed body), and its history (readFailed: a cache read
\* threw; rangeRejected: the store rejected the speculative ranged read;
\* found: the metadata of the object its lookup found; sawUploaded: the
\* upload stamp of that object; putUploaded: the stamp its own put got;
\* putError: why its put failed; sizeValidation: what validateResponseSize
\* returned, once the handler has called it; received: the bytes of the streamed body that
\* reached the client; fetches: its calls of fetch; followed: the requests
\* that had been answered when this one arrived; strayed: the URL the origin's
\* response came from, where it differs from the URL asked for and fails
\* validateUrlForFetch or the admission of its host; served: the metadata
\* of the object whose bytes are the body of its hit response)
NewSlot ==
    [pc |-> "new", request |-> NoRequest, parsed |-> ParseError(""),
     validation |-> NoValidation,
     cacheResult |-> NoObject, rangeData |-> NoObject, origin |-> NoOrigin,
     response |-> NoResponse, usage |-> <<>>, stream |-> "none", put |-> "none",
     delete |-> "none", client |-> "none", received |-> 0,
     readFailed |-> FALSE, rangeRejected |-> FALSE, found |-> NoObject,
     sawUploaded |-> 0, putUploaded |-> 0, putError |-> "",
     sizeValidation |-> NotValidated, fetches |-> 0, followed |-> {}, strayed |-> "",
     served |-> NoObject]

\* the handler returns: the locals are dropped
Answer(s, response) ==
    [s EXCEPT !.pc = "done", !.response = response, !.cacheResult = NoObject,
              !.rangeData = NoObject, !.origin = NoOrigin]

\* trackUsage(env, ctx, domain, bytes, cacheHit, domain_records)
trackUsage(s, host, bytes, cacheHit) ==
    [s EXCEPT !.usage = Append(@, [domain |-> host, bytes |-> bytes, cacheHit |-> cacheHit])]

\* ctx.waitUntil(env.R2.delete(key)) (part_001:197, 253-255)
ScheduleDelete(s) == [s EXCEPT !.delete = "pending"]

\* the 200 answer to HEAD on a hit (part_001:209-224)
HeadHit(headResult) ==
    Response(200, "hit", "", "", headResult.etag, headResult.uploaded, headResult.size, <<>>)

\* HEAD once the metadata is known (part_001:189-238)
AnswerHead(s, parsed, headResult) ==
    IF headResult.present
    THEN IF ~MediaContentTypeOf[toLowerCase(headResult.contentType)]
         THEN Answer(ScheduleDelete(s), Redirect(parsed.sourceUrl))
         ELSE Answer(s, HeadHit(headResult))
    ELSE Answer(s, Redirect(parsed.sourceUrl))

\* The hit path of part_001 tracks the requested size when it answers
\* (part_001:350-352, 400-403).  The hit path of src/src/index.ts wraps the
\* body in createByteCountingStream and tracks what the counter resolves
\* with (index.ts:592-600, 648-656).
ByteCountedHits == headRoute = "handleHeadRequest"

\* a hit is answered with the body of the stored object: the client starts
\* to read it
ServeHit(s, host, requested, response) ==
    [Answer(IF ByteCountedHits THEN s ELSE trackUsage(s, host, requested, TRUE), response)
       EXCEPT !.client = "open"]

\* the 206 for a partial range on a hit (part_001:336-368)
AnswerPartial(s, parsed, rangeInfo, partialObject) ==
    IF ~partialObject.present THEN Answer(s, PlainRedirect(parsed.sourceUrl))
    ELSE ServeHit([s EXCEPT !.served = MetadataOf(partialObject)], parsed.domain,
                  rangeInfo.length,
                  Response(206, "hit", "", partialObject.body, s.cacheResult.etag,
                           s.cacheResult.uploaded, rangeInfo.length,
                           <<rangeInfo.start, rangeInfo.end, s.cacheResult.size>>))

\* the mutant of AnswerFull that answers a range covering the object with a
\* plain 200
AnswerFullAs200(s, parsed, rangeInfo, fullObject) ==
    IF ~fullObject.present THEN Answer(s, PlainRedirect(parsed.sourceUrl))
    ELSE ServeHit([s EXCEPT !.served = MetadataOf(fullObject)], parsed.domain, fullObject.size,
                  Response(200, "hit", "", fullObject.body, s.cacheResult.etag,
                           s.cacheResult.uploaded, fullObject.size, <<>>))

\* the full-content answer on a hit (part_001:388-429)
AnswerFull(s, parsed, rangeInfo, fullObject) ==
    IF ~fullObject.present THEN Answer(s, PlainRedirect(parsed.sourceUrl))
    ELSE ServeHit([s EXCEPT !.served = MetadataOf(fullObject)], parsed.domain,
                  IF rangeInfo.ok THEN rangeInfo.length ELSE fullObject.size,
                  Response(IF rangeInfo.ok THEN 206 ELSE 200, "hit", "", fullObject.body,
                           s.cacheResult.etag, s.cacheResult.uploaded, fullObject.size,
                           IF rangeInfo.ok
                           THEN <<rangeInfo.start, rangeInfo.end, s.cacheResult.size>>
                           ELSE <<>>))

\* the range of the request against the size of the cached object (part_001:283)
RangeInfoOf(s) ==
    IF s.request.range # "" THEN parseRangeHeader(s.request.range, s.cacheResult.size)
    ELSE NoRange

\* GET on a cache hit, from the check of the range on (part_001:283-430)
AnswerRange(s, parsed, rangeInfo, isStandardRange) ==
    IF s.request.range # "" /\ ~rangeInfo.ok
    THEN Answer(s, Response(416, "", "", "Range Not Satisfiable", "", 0, -1,
                            <<-1, -1, s.cacheResult.size>>))
    ELSE IF rangeInfo.ok /\ rangeInfo.isPartial
    THEN IF isStandardRange /\ s.rangeData.present
         THEN AnswerPartial(s, parsed, rangeInfo, s.rangeData)
         ELSE [s EXCEPT !.pc = "partialRead"]
    ELSE IF s.cacheResult.hasBody THEN AnswerFull(s, parsed, rangeInfo, s.cacheResult)
    ELSE IF isStandardRange /\ s.rangeData.present
    THEN AnswerFull(s, parsed, rangeInfo, s.rangeData)
    ELSE IF s.request.range # "" THEN [s EXCEPT !.pc = "fullRead"]
    ELSE Answer(s, PlainRedirect(parsed.sourceUrl))

\* GET on a cache hit (part_001:242-430)
AnswerHit(s, parsed) ==
    IF ~MediaContentTypeOf[toLowerCase(s.cacheResult.contentType)]
    THEN Answer(ScheduleDelete(s), Redirect(parsed.sourceUrl))
    ELSE IF handleConditionalRequest(s.request.ifNoneMatch, s.cacheResult.etag)
    THEN Answer(trackUsage(s, parsed.domain, 0, TRUE),
                Response(304, "", "", "", s.cacheResult.etag, 0, -1, <<>>))
    ELSE AnswerRange(s, parsed, RangeInfoOf(s), StandardRange(s.request.range).is)

\* The miss path of part_001 looks at the Range header: it redirects a
\* partial range (part_001:436-455) and answers 206 to a range it serves
\* (part_001:598-622).  The miss path of the entry point of src/src/index.ts
\* does neither (index.ts:685-690, 831-843).
RangeAwareMiss == headRoute = "inline"

\* the mutant of Dispatch that serves what the lookup found before it looks
\* at the verdict of admission
DispatchServingDenied(s, parsed) ==
    LET rangeHeader == s.request.range
    IN  IF s.request.method = "HEAD"
        THEN IF parsed.forceReprocess THEN Answer(s, Redirect(parsed.sourceUrl))
             ELSE IF s.cacheResult.present THEN AnswerHead(s, parsed, s.cacheResult)
             ELSE [s EXCEPT !.pc = "headRead"]
        ELSE IF s.cacheResult.present THEN AnswerHit(s, parsed)
        ELSE IF ~s.validation.allowed THEN Answer(s, Redirect(parsed.sourceUrl))
        ELSE IF RangeAwareMiss /\ rangeHeader # "" /\ rangeHeader # "bytes=0-"
        THEN Answer(s, Redirect(parsed.sourceUrl))
        ELSE [s EXCEPT !.pc = "origin"]

\* the mutant of Dispatch that goes to the origin although the lookup hit
DispatchRefetching(s, parsed) ==
    IF ~s.validation.allowed THEN Answer(s, Redirect(parsed.sourceUrl))
    ELSE [s EXCEPT !.pc = "origin"]

\* the handler after Promise.all (part_001:149-455), up to its next await
Dispatch(s, parsed) ==
    LET rangeHeader == s.request.range
    IN  IF ~s.validation.allowed THEN Answer(s, Redirect(parsed.sourceUrl))
        ELSE IF s.request.method = "HEAD"
        THEN IF parsed.forceReprocess THEN Answer(s, Redirect(parsed.sourceUrl))
             ELSE IF s.cacheResult.present THEN AnswerHead(s, parsed, s.cacheResult)
             ELSE [s EXCEPT !.pc = "headRead"]
        ELSE IF s.cacheResult.present THEN AnswerHit(s, parsed)
        ELSE IF RangeAwareMiss /\ rangeHeader # "" /\ rangeHeader # "bytes=0-"
        THEN Answer(s, Redirect(parsed.sourceUrl))
        ELSE [s EXCEPT !.pc = "origin"]

(***************************************************************************)
(* The steps of the fetch handler (part_001:44-666).  A step runs from one *)
(* await of the handler to the next; between them the handlers of other    *)
(* requests and the background work may run.                               *)
(***************************************************************************)
SetSlot(i, s) == req' = [req EXCEPT ![i] = s]

\* fetch, from its entry to Promise.all (part_001:44-123); with the entry
\* point of src/src/index.ts, HEAD goes to handleHeadRequest (index.ts:404-409)
Receive(s, parsed) ==
    IF s.request.method = "OPTIONS"
    THEN Answer(s, Response(204, "", "", "", "", 0, -1, <<>>))
    ELSE IF s.request.url.pathname \in {"/health", "/ping"}
    THEN Answer(s, Response(200, "", "", "healthy", "", 0, -1, <<>>))
    ELSE IF s.request.url.pathname = "/stats"
    THEN Answer(s, Response(200, "", "", "stats", "", 0, -1, <<>>))
    ELSE IF ~parsed.ok THEN Answer(s, ErrorFloor(s.request.url))
    ELSE IF s.request.method = "DELETE"
    THEN Answer(s, Response(405, "", "", "", "", 0, -1, <<>>))
    ELSE IF s.request.method = "HEAD" /\ headRoute = "handleHeadRequest"
    THEN [s EXCEPT !.parsed = parsed, !.pc = "handleHeadRequest"]
    ELSE IF s.request.method \notin {"GET", "HEAD"}
    THEN Answer(s, Response(405, "", "", "", "", 0, -1, <<>>))
    ELSE [s EXCEPT !.parsed = parsed, !.pc = "lookup"]

Worker_fetch(i, request) ==
    /\ req[i].pc = "new"
    /\ i > 1 => req[i - 1].pc # "new"
    /\ SetSlot(i, Receive([req[i] EXCEPT !.request = request,
                                         !.followed = {k \in 1..MaxRequests : req[k].pc = "done"}],
                          Parsed(request.url)))
    /\ UNCHANGED <<trackerVars, parserVars, env, headRoute, r2, clock, fetchCalls, overwrites>>

\* the mutant of ReadFailed that treats the failed read as a miss
ReadFailedAsMiss(s) == [s EXCEPT !.readFailed = TRUE, !.pc = "origin"]

\* a read of the cache threw: the catch block answers (part_001:642-664)
ReadFailed(s) == Answer([s EXCEPT !.readFailed = TRUE], ErrorFloor(s.request.url))

\* Promise.all (part_001:130-147): validateOrigin and the cache read (head or
\* get).  A standard range also reads the range (Worker_rangeRead), served by
\* the store after the metadata.  A read of the registry or of the store may fail.
Lookup(s, validation, cacheResult, readsRange, r2Fails) ==
    IF r2Fails THEN ReadFailed([s EXCEPT !.validation = validation])
    ELSE IF readsRange
    THEN [s EXCEPT !.validation = validation, !.cacheResult = cacheResult,
                   !.found = MetadataOf(cacheResult),
                   !.sawUploaded = cacheResult.uploaded, !.pc = "rangeRead"]
    ELSE Dispatch([s EXCEPT !.validation = validation, !.cacheResult = cacheResult,
                            !.found = MetadataOf(cacheResult),
                            !.sawUploaded = cacheResult.uploaded], s.parsed)

Worker_lookup(i, kvFails, r2Fails) ==
    /\ req[i].pc = "lookup"
    /\ LET s == req[i]
           parsed == s.parsed
           rangeHeader == s.request.range
           isHeadRequest == s.request.method = "HEAD"
       IN  /\ kvFails => ReadsRegistry(parsed.domain, env)
           /\ r2Fails => ~parsed.forceReprocess
           /\ SetSlot(i, Lookup(s, OriginOf[parsed.domain, env, kvFails],
                         IF parsed.forceReprocess THEN NoObject
                         ELSE IF isHeadRequest \/ (rangeHeader # "" /\ rangeHeader # "bytes=0-")
                         THEN getCacheHead(r2, parsed.cacheKey)
                         ELSE getFromCache(r2, parsed.cacheKey),
                         ~(parsed.forceReprocess \/ isHeadRequest
                           \/ ~StandardRange(rangeHeader).is),
                         r2Fails))
    /\ UNCHANGED <<trackerVars, parserVars, env, headRoute, r2, clock, fetchCalls, overwrites>>

\* the ranged get of Promise.all (part_001:139-146), then the handler goes on
RangeRead(cacheKey, range) ==
    getFromCacheWithRange(r2, cacheKey, range.start, range.end - range.start + 1)

\* The ranged get is issued before the size of the object is known.  When
\* its offset lies at or beyond the end of the object the store may reject
\* the read: Promise.all rejects and the catch block answers
\* (part_001:642-664).
RangeRejected(s) == Answer([s EXCEPT !.rangeRejected = TRUE], ErrorFloor(s.request.url))

\* the offset of the range lies at or beyond the end of the stored object
OffsetBeyond(cacheKey, range) ==
    r2[cacheKey].present /\ range.start >= r2[cacheKey].size

Worker_rangeRead(i, r2Fails, rejects) ==
    /\ req[i].pc = "rangeRead"
    /\ ~(r2Fails /\ rejects)
    /\ rejects => OffsetBeyond(req[i].parsed.cacheKey, StandardRange(req[i].request.range))
    /\ LET s == req[i]
           parsed == s.parsed
       IN  IF r2Fails
           THEN SetSlot(i, ReadFailed(s))
           ELSE IF rejects
           THEN SetSlot(i, RangeRejected(s))
           ELSE SetSlot(i, Dispatch([s EXCEPT !.rangeData =
                                       RangeRead(parsed.cacheKey, StandardRange(s.request.range))],
                                    parsed))
    /\ UNCHANGED <<trackerVars, parserVars, env, headRoute, r2, clock, fetchCalls, overwrites>>

\* HEAD: cacheResult || await getCacheHead(...) (part_001:189)
Worker_headRead(i, r2Fails) ==
    /\ req[i].pc = "headRead"
    /\ LET s == req[i]
           parsed == s.parsed
       IN  IF r2Fails
           THEN SetSlot(i, ReadFailed(s))
           ELSE SetSlot(i, AnswerHead([s EXCEPT !.found = getCacheHead(r2, parsed.cacheKey)],
                                      parsed, getCacheHead(r2, parsed.cacheKey)))
    /\ UNCHANGED <<trackerVars, parserVars, env, headRoute, r2, clock, fetchCalls, overwrites>>

\* await getFromCacheWithRange(env, key, rangeInfo) (part_001:332-334)
PartialRead(s, rangeInfo) ==
    AnswerPartial(s, s.parsed, rangeInfo,
                  getFromCacheWithRange(r2, s.parsed.cacheKey, rangeInfo.start, rangeInfo.length))

Worker_partialRead(i, r2Fails) ==
    /\ req[i].pc = "partialRead"
    /\ LET s == req[i]
           parsed == s.parsed
       IN  IF r2Fails
           THEN SetSlot(i, ReadFailed(s))
           ELSE SetSlot(i, PartialRead(s, RangeInfoOf(s)))
    /\ UNCHANGED <<trackerVars, parserVars, env, headRoute, r2, clock, fetchCalls, overwrites>>

\* await getFromCache(env, key) for a range that covers the object (part_001:383-386)
Worker_fullRead(i, r2Fails) ==
    /\ req[i].pc = "fullRead"
    /\ LET s == req[i]
           parsed == s.parsed
       IN  IF r2Fails
           THEN SetSlot(i, ReadFailed(s))
           ELSE SetSlot(i, AnswerFull(s, parsed, RangeInfoOf(s),
                                      getFromCache(r2, parsed.cacheKey)))
    /\ UNCHANGED <<trackerVars, parserVars, env, headRoute, r2, clock, fetchCalls, overwrites>>

\* handleHeadRequest (part_005:42-69), called by the HEAD route of
\* src/src/index.ts:404-409; an exception reaches the catch block of fetch
Worker_handleHeadRequest(i, r2Fails) ==
    /\ req[i].pc = "handleHeadRequest"
    /\ LET s == req[i]
           cached == getCacheHead(r2, s.parsed.cacheKey)
       IN  IF r2Fails
           THEN SetSlot(i, ReadFailed(s))
           ELSE IF cached.present
           THEN SetSlot(i, Answer([s EXCEPT !.sawUploaded = cached.uploaded,
                                            !.found = cached],
                                  Response(200, "cached", "", "", cached.etag,
                                           cached.uploaded, cached.size, <<>>)))
           ELSE SetSlot(i, Answer(s, Response(404, "", "", "", "", 0, -1, <<>>)))
    /\ UNCHANGED <<trackerVars, parserVars, env, headRoute, r2, clock, fetchCalls, overwrites>>

\* the answer to a cache miss served from the origin (part_001:558-640): the
\* body is teed to the client and to the background put; storeInCacheStream
\* skips the put when the length is unknown (cache.ts:110-115)
AnswerMiss(s, response, contentLength) ==
    LET partial == /\ RangeAwareMiss
                   /\ s.request.range # "" /\ contentLength # -1 /\ contentLength > 0
    IN  [s EXCEPT !.pc = "done",
                  !.response = Response(IF partial THEN 206 ELSE 200, "miss", "",
                                        response.body, "", 0, contentLength,
                                        IF partial THEN <<0, contentLength - 1, contentLength>>
                                        ELSE <<>>),
                  !.origin = response,
                  !.stream = "open",
                  !.client = "open",
                  !.put = IF contentLength = -1 THEN "skipped" ELSE "streaming",
                  !.cacheResult = NoObject, !.rangeData = NoObject]

\* the mutant of AnswerOrigin that looks neither at block detection nor at
\* the status
AnswerOriginAnyStatus(s, url, response, sizeValidation) ==
    IF ~MediaContentTypeOf[response.contentType] THEN Answer(s, Redirect(url))
    ELSE IF ~sizeValidation.valid
    THEN Answer([s EXCEPT !.sizeValidation = sizeValidation], Redirect(url))
    ELSE IF ~response.hasBody
    THEN Answer([s EXCEPT !.sizeValidation = sizeValidation], PlainRedirect(url))
    ELSE AnswerMiss([s EXCEPT !.sizeValidation = sizeValidation], response,
                    sizeValidation.size)

\* the handler after the origin has answered (part_001:457-640): block
\* detection (part_004:509-526), then the checks of the handler
AnswerOrigin(s, url, response, sizeValidation) ==
    IF detectBlockedResponse(response) THEN Answer(s, Redirect(url))
    ELSE IF response.status \notin 200..299 THEN Answer(s, Redirect(url))
    ELSE IF ~MediaContentTypeOf[response.contentType] THEN Answer(s, Redirect(url))
    ELSE IF ~sizeValidation.valid
    THEN Answer([s EXCEPT !.sizeValidation = sizeValidation], Redirect(url))
    ELSE IF ~response.hasBody
    THEN Answer([s EXCEPT !.sizeValidation = sizeValidation], PlainRedirect(url))
    ELSE AnswerMiss([s EXCEPT !.sizeValidation = sizeValidation], response,
                    sizeValidation.size)

\* the mutant of FetchThrows that does not look at the URL the response came
\* from
FetchThrowsUnchecked(url, response, urlValidation, finalValidation, kvFails) ==
    ~urlValidation.valid \/ response.throws

\* fetchFromOrigin (part_004:424-501) validates the URL, calls fetch, and
\* validates the URL the response came from when it differs
FetchThrows(url, response, urlValidation, finalValidation, kvFails) ==
    \/ ~urlValidation.valid
    \/ response.throws
    \/ /\ response.url # "" /\ response.url # url
       /\ \/ ~finalValidation.valid
          \/ ~OriginOf[finalValidation.domain, env, kvFails].allowed

FetchFromOrigin(s, url, response, urlValidation, finalValidation, kvFails) ==
    IF FetchThrows(url, response, urlValidation, finalValidation, kvFails)
    THEN Answer([s EXCEPT !.fetches = IF urlValidation.valid THEN @ + 1 ELSE @],
                ErrorFloor(s.request.url))
    ELSE AnswerOrigin([s EXCEPT !.fetches = IF urlValidation.valid THEN @ + 1 ELSE @],
                      url, response, validateResponseSize(response, env.MAX_FILE_SIZE))

\* a read of the registry can fail only where the registry is read
RegistryReadAt(url, response, urlValidation, finalValidation) ==
    /\ urlValidation.valid /\ ~response.throws
    /\ response.url # "" /\ response.url # url
    /\ finalValidation.valid
    /\ ReadsRegistry(finalValidation.domain, env)

\* the URL fetch ended at after following redirects, where it is another
\* than the one asked for and is no URL the worker may fetch: it fails
\* validateUrlForFetch (validation.ts:331-365), or validateOrigin denies its
\* host (part_001:458-468); "" otherwise
StrayedTo(url, response, urlValidation, finalValidation, kvFails) ==
    IF /\ urlValidation.valid /\ ~response.throws
       /\ response.url # "" /\ response.url # url
       /\ (finalValidation.valid => ~OriginOf[finalValidation.domain, env, kvFails].allowed)
    THEN response.url
    ELSE ""

FetchStep(i, s, url, response, urlValidation, finalValidation, kvFails) ==
    /\ kvFails => RegistryReadAt(url, response, urlValidation, finalValidation)
    /\ fetchCalls' = IF urlValidation.valid
                     THEN fetchCalls \cup {[slot |-> i, url |-> url]}
                     ELSE fetchCalls
    /\ SetSlot(i, FetchFromOrigin([s EXCEPT !.strayed = StrayedTo(url, response, urlValidation,
                                                                 finalValidation, kvFails)],
                                  url, response, urlValidation, finalValidation, kvFails))

\* await fetchMediaFromOrigin(...) and the handler up to its return
\* (part_001:457-640)
Worker_fetchFromOrigin(i, response, kvFails) ==
    /\ req[i].pc = "origin"
    /\ response \in OriginOutcomesOf[req[i].parsed.sourceUrl]
    /\ FetchStep(i, req[i], req[i].parsed.sourceUrl, response,
                 UrlForFetchOf[req[i].parsed.sourceUrl], UrlForFetchOf[response.url], kvFails)
    /\ UNCHANGED <<trackerVars, parserVars, env, headRoute, r2, clock, overwrites>>

(***************************************************************************)
(* Background work, kept alive by ctx.waitUntil after the response.        *)
(***************************************************************************)
\* the mutant of StreamErrored that tracks the bytes that passed
StreamErroredTracking(s, passed) ==
    [trackUsage(s, s.parsed.domain, passed, FALSE)
       EXCEPT !.stream = "errored",
              !.put = IF @ = "streaming" THEN "failed" ELSE @,
              !.putError = IF s.put = "streaming" THEN "stream" ELSE @,
              !.client = IF @ = "open" THEN "errored" ELSE @,
              !.received = IF s.client = "open" THEN passed ELSE @,
              !.origin = NoOrigin]

\* The body exceeded the limit of createSizeLimitedStream (part_004:657-666)
\* after `passed` bytes had been let through: the stream errors, both
\* branches of the tee with it, and byteCount rejects; the handler's catch
\* tracks nothing (part_001:569-575), the put fed by the stream fails.
StreamErrored(s, passed) ==
    [s EXCEPT !.stream = "errored",
              !.put = IF @ = "streaming" THEN "failed" ELSE @,
              !.putError = IF s.put = "streaming" THEN "stream" ELSE @,
              !.client = IF @ = "open" THEN "errored" ELSE @,
              !.received = IF s.client = "open" THEN passed ELSE @,
              !.origin = NoOrigin]

\* the client's branch once the body has passed: with a known length it is
\* piped through FixedLengthStream (part_001:624-635), which accepts exactly
\* that many bytes
ClientAfter(s, bytes) ==
    IF s.client # "open" THEN s.client
    ELSE IF s.response.contentLength # -1 /\ s.response.contentLength # bytes THEN "errored"
    ELSE "complete"

\* The body ended within the limit (part_004:669-671): byteCount resolves
\* with the bytes counted and the usage is tracked (part_001:569-572).
StreamEnded(s, bytes) ==
    [trackUsage(s, s.parsed.domain, bytes, FALSE)
       EXCEPT !.stream = "ended",
              !.put = IF @ = "streaming" THEN "ready" ELSE @,
              !.client = ClientAfter(s, bytes),
              !.received = IF s.client # "open" THEN @
                           ELSE IF s.response.contentLength = -1 THEN bytes
                           ELSE Min(bytes, s.response.contentLength),
              !.origin = IF s.put = "streaming" THEN @ ELSE NoOrigin]

\* The origin body has passed through createSizeLimitedStream
\* (part_004:641-684); passed: the bytes of the chunks before the one that
\* exceeded the limit.
Worker_streamEnds(i, passed) ==
    /\ req[i].pc = "done"
    /\ req[i].stream = "open"
    /\ IF Len(req[i].origin.body) > env.MAX_FILE_SIZE
       THEN SetSlot(i, StreamErrored(req[i], passed))
       ELSE passed = 0 /\ SetSlot(i, StreamEnded(req[i], Len(req[i].origin.body)))
    /\ UNCHANGED <<trackerVars, parserVars, env, headRoute, r2, clock, fetchCalls, overwrites>>

\* the mutant of ClientGone in which the disconnect cancels the cache branch
ClientGoneCancelsPut(s) ==
    [s EXCEPT !.client = "gone",
              !.put = IF @ = "streaming" THEN "failed" ELSE @,
              !.putError = IF s.put = "streaming" THEN "cancelled" ELSE @]

\* The client disconnects before the body has passed (what it had received
\* is not recorded): its branch of the tee is cancelled (part_001:566,
\* 630-635).  The other branch feeds the put
\* (part_001:578-590) and keeps the stream flowing; where the put was skipped
\* that branch was cancelled at once (cache.ts:110-115), and where the put
\* has failed its pipe has cancelled it (cache.ts:121-123), so the stream is
\* cancelled and byteCount rejects (part_004:673-677).
ClientGone(s) ==
    [s EXCEPT !.client = "gone",
              !.stream = IF s.put \in {"skipped", "failed"} THEN "cancelled" ELSE @,
              !.origin = IF s.put \in {"skipped", "failed"} THEN NoOrigin ELSE @]

Worker_clientDisconnects(i) ==
    /\ req[i].pc = "done"
    /\ req[i].stream = "open" /\ req[i].client = "open"
    /\ SetSlot(i, ClientGone(req[i]))
    /\ UNCHANGED <<trackerVars, parserVars, env, headRoute, r2, clock, fetchCalls, overwrites>>

\* the bytes a client may have taken of a body when it goes away
CutBytes == {0, 1}

\* what a client gets of the body of a hit: all of it, or the bytes it took
\* before it went away
HitDeliveries(body) == {Len(body)} \cup {k \in CutBytes : k < Len(body)}

\* createByteCountingStream (part_004:583-626) resolves byteCount with the
\* bytes that passed, when the body has ended and when the client cancels;
\* the hit path of src/src/index.ts then tracks them (index.ts:596-600, 652-656)
HitDelivered(s, got) ==
    [(IF ByteCountedHits THEN trackUsage(s, s.parsed.domain, got, TRUE) ELSE s)
       EXCEPT !.client = IF got = Len(s.response.body) THEN "complete" ELSE "gone",
              !.received = got]

\* the body of a hit has been read by the client, in full or up to where the
\* client went away
Worker_hitDelivered(i, got) ==
    /\ req[i].pc = "done"
    /\ req[i].response.xstatus = "hit" /\ req[i].client = "open"
    /\ got \in HitDeliveries(req[i].response.body)
    /\ SetSlot(i, HitDelivered(req[i], got))
    /\ UNCHANGED <<trackerVars, parserVars, env, headRoute, r2, clock, fetchCalls, overwrites>>

\* the mutant of StoredObject that stores nothing of the body
StoredObjectEmpty(origin, uploaded) == Object("", origin.contentType, uploaded)

\* the object env.R2.put writes (cache.ts:126-137)
StoredObject(origin, uploaded) == Object(origin.body, origin.contentType, uploaded)

\* the mutant of PutFailed in which the failed put takes the response
\* stream down with it
PutFailedFailsClient(s, error) ==
    [s EXCEPT !.put = "failed", !.putError = error,
              !.stream = IF @ = "open" THEN "errored" ELSE @,
              !.client = IF @ = "open" THEN "errored" ELSE @,
              !.origin = NoOrigin]

\* env.R2.put rejects: storeInCacheStream rejects and the handler's catch
\* logs it (cache.ts:126-137, part_001:578-590).  The response and the
\* client's branch of the tee (part_001:566) are left alone; the put's own
\* branch is cancelled by its pipe (cache.ts:121-123), which cancels the
\* stream if the client's branch was cancelled before.
PutFailed(s, error) ==
    LET flowing == s.stream = "open" /\ s.client # "gone"
    IN  [s EXCEPT !.put = "failed", !.putError = error,
                  !.stream = IF @ = "open" /\ ~flowing THEN "cancelled" ELSE @,
                  !.origin = IF flowing THEN @ ELSE NoOrigin]

\* await env.R2.put(...) of storeInCacheStream settles (cache.ts:96-138): the
\* object is written under the key, replacing what is there, or the put
\* fails (the FixedLengthStream got another length than announced, or the
\* store failed, which it may do while the body still streams); the failure
\* is logged and swallowed (part_001:587-589)
Worker_putSettles(i, r2Fails) ==
    /\ req[i].pc = "done"
    /\ req[i].put = "ready" \/ (req[i].put = "streaming" /\ r2Fails)
    /\ LET s == req[i]
           parsed == s.parsed
       IN  IF r2Fails \/ Len(s.origin.body) # s.response.contentLength
           THEN /\ SetSlot(i, PutFailed(s, IF r2Fails THEN "store" ELSE "length"))
                /\ UNCHANGED <<r2, clock, overwrites>>
           ELSE /\ r2' = [r2 EXCEPT ![parsed.cacheKey] = StoredObject(s.origin, clock + 1)]
                /\ clock' = clock + 1
                /\ overwrites' = IF r2[parsed.cacheKey].present
                                 THEN overwrites \cup {[slot |-> i, force |-> parsed.forceReprocess]}
                                 ELSE overwrites
                /\ SetSlot(i, [s EXCEPT !.put = "stored", !.putUploaded = clock + 1,
                                        !.origin = NoOrigin])
    /\ UNCHANGED <<trackerVars, parserVars, env, headRoute, fetchCalls>>

\* env.R2.delete(key) of a poisoned entry settles (part_001:197, 253-255);
\* its failure is swallowed
Worker_deleteSettles(i, r2Fails) ==
    /\ req[i].delete = "pending"
    /\ r2' = IF r2Fails THEN r2
             ELSE [r2 EXCEPT ![req[i].parsed.cacheKey] = NoObject]
    /\ SetSlot(i, [req[i] EXCEPT !.delete = IF r2Fails THEN "failed" ELSE "done"])
    /\ UNCHANGED <<trackerVars, parserVars, env, headRoute, clock, fetchCalls, overwrites>>

\* the object store before the first request: empty, or holding under the
\* key of /example.com/a.jpg a media object and under the key of
\* /other.org/b.png an empty one (an origin that announced Content-Length: 0
\* was cached, part_001:601-602), or holding an entry that is no media
EmptyBucket == [k \in CacheKeys |-> NoObject]

BucketsOver(empty) ==
    { empty,
      [empty EXCEPT !["example.com/a.jpg"] = Object("ab", "image/jpeg", 1),
                    !["other.org/b.png"] = Object("", "image/png", 1)],
      [empty EXCEPT !["example.com/a.jpg"] = Object("<>", "text/html", 1)] }

InitialStores == BucketsOver(EmptyBucket)

\* a store that was filled while the allow-list was wider: beside its
\* entries it holds an object of a host the list does not admit
KeptFromWiderList(b) ==
    IF b = EmptyBucket THEN b
    ELSE [b EXCEPT !["other.org/b.png"] = Object("", "image/png", 1)]

\* the stores a deployment starts with: the one without registry and with
\* the pipeline of part_001 starts with each, the one with the registry with
\* the empty store, the one of src/src/index.ts with no media object of a
\* host its list admits
StoresOf(d) ==
    IF d.env.ORIGINS_KV THEN {EmptyBucket}
    ELSE IF d.headRoute = "inline" THEN InitialStores
    ELSE {KeptFromWiderList(b) : b \in {c \in InitialStores :
                                   ~MediaContentTypeOf[c["example.com/a.jpg"].contentType]}}

WorkerInit ==
    /\ \E d \in Deployments : env = d.env /\ headRoute = d.headRoute /\ r2 \in StoresOf(d)
    /\ clock = 1
    /\ req = [i \in 1..MaxRequests |-> NewSlot]
    /\ fetchCalls = {}
    /\ overwrites = {}

\* the worker before any deployment serves: the state the aggregator's
\* specification leaves untouched
WorkerQuiet ==
    /\ env = EnvOf("", "", "", FALSE)
    /\ headRoute = "inline"
    /\ r2 = EmptyBucket
    /\ clock = 1
    /\ req = [i \in 1..MaxRequests |-> NewSlot]
    /\ fetchCalls = {}
    /\ overwrites = {}

\* the bytes the limited stream let through before it erred
PassedBytes == {0, MaxFileSize}

\* parsed.sourceUrl of the request in slot i
SourceUrlOf(i) == req[i].parsed.sourceUrl

WorkerNext ==
    \/ \E i \in 1..MaxRequests, request \in Requests : Worker_fetch(i, request)
    \/ \E i \in 1..MaxRequests, kvFails \in BOOLEAN, r2Fails \in BOOLEAN :
          Worker_lookup(i, kvFails, r2Fails)
    \/ \E i \in 1..MaxRequests, r2Fails \in BOOLEAN, rejects \in BOOLEAN :
          Worker_rangeRead(i, r2Fails, rejects)
    \/ \E i \in 1..MaxRequests, r2Fails \in BOOLEAN : Worker_headRead(i, r2Fails)
    \/ \E i \in 1..MaxRequests, r2Fails \in BOOLEAN : Worker_partialRead(i, r2Fails)
    \/ \E i \in 1..MaxRequests, r2Fails \in BOOLEAN : Worker_fullRead(i, r2Fails)
    \/ \E i \in 1..MaxRequests, r2Fails \in BOOLEAN : Worker_handleHeadRequest(i, r2Fails)
    \/ \E i \in 1..MaxRequests, kvFails \in BOOLEAN :
          \E response \in OriginOutcomesOf[SourceUrlOf(i)] :
             Worker_fetchFromOrigin(i, response, kvFails)
    \/ \E i \in 1..MaxRequests, passed \in PassedBytes : Worker_streamEnds(i, passed)
    \/ \E i \in 1..MaxRequests : Worker_clientDisconnects(i)
    \/ \E i \in 1..MaxRequests, got \in 0..MaxFileSize : Worker_hitDelivered(i, got)
    \/ \E i \in 1..MaxRequests, r2Fails \in BOOLEAN : Worker_putSettles(i, r2Fails)
    \/ \E i \in 1..MaxRequests, r2Fails \in BOOLEAN : Worker_deleteSettles(i, r2Fails)

(***************************************************************************)
(* The size-limited stream (createSizeLimitedStream, part_004:641-684).    *)
(* A chunk is modelled by its byteLength.                                  *)
(***************************************************************************)
\* the byte-count promise before it is settled, resolved with a count, and
\* rejected (part_004:652-655)
PendingByteCount == [status |-> "pending", value |-> 0]
ResolvedByteCount(count) == [status |-> "resolved", value |-> count]
RejectedByteCount == [status |-> "rejected", value |-> 0]

\* createSizeLimitedStream(stream, maxSize) has returned: totalBytes is 0,
\* the promise is pending, nothing has been taken from the source
NewLimited(chunks, maxSize) ==
    [chunks |-> chunks, maxSize |-> maxSize, taken |-> 0, totalBytes |-> 0,
     emitted |-> <<>>, readable |-> "open", byteCount |-> PendingByteCount,
     settleCalls |-> 0]

\* resolveByteCount or rejectByteCount is called: a promise takes the first
\* settlement only
Settle(run, outcome) ==
    [run EXCEPT !.byteCount = IF @.status = "pending" THEN outcome ELSE @,
                !.settleCalls = @ + 1]

\* transform(chunk, controller) (part_004:658-669)
SizeLimited_transform(run, chunk) ==
    LET counted == [run EXCEPT !.taken = @ + 1, !.totalBytes = @ + chunk]
    IN  IF counted.totalBytes > counted.maxSize
        THEN [Settle(counted, RejectedByteCount) EXCEPT !.readable = "errored"]
        ELSE [counted EXCEPT !.emitted = Append(@, chunk)]

\* flush() (part_004:670-672); the readable side closes after it
SizeLimited_flush(run) ==
    [Settle(run, ResolvedByteCount(run.totalBytes)) EXCEPT !.readable = "closed"]

\* a cancel(reason) that leaves the promise alone
SizeLimited_cancelSilent(run) == [run EXCEPT !.readable = "cancelled"]

\* cancel(reason) (part_004:673-677)
SizeLimited_cancel(run) ==
    [Settle(run, RejectedByteCount) EXCEPT !.readable = "cancelled"]

RECURSIVE SumOfChunks(_)
SumOfChunks(chunks) ==
    IF chunks = <<>> THEN 0 ELSE Head(chunks) + SumOfChunks(Tail(chunks))

(***************************************************************************)
(* The specifications.  Spec: the usage aggregator, the worker left        *)
(* untouched.  PipeSpec: the worker, the aggregator left untouched.        *)
(***************************************************************************)
\* the range parser before its first call
RangeQuiet ==
    /\ rangeCall = [rangeHeader |-> "", totalSize |-> 0, returned |-> FALSE]
    /\ rangeResult = NoRange

\* admission before its first call
AdmissionQuiet ==
    /\ originCall = [domain |-> "", env |-> EnvOf("", "", "", FALSE), blocked |-> <<>>,
                     value |-> [kind |-> "absent", records |-> <<>>], failed |-> FALSE,
                     returned |-> FALSE]
    /\ originResult = NoValidation

\* the URL parser before its first call
UrlQuiet ==
    /\ urlCall = [host |-> "", segments |-> <<>>, pathnames |-> <<"", "">>,
                  returned |-> FALSE]
    /\ urlResult = <<ParseError(""), ParseError("")>>

\* no size-limited stream has been made
StreamQuiet == limited = NewLimited(<<>>, 0)

ParserQuiet == RangeQuiet /\ AdmissionQuiet /\ UrlQuiet /\ StreamQuiet

Init == TrackerInit /\ WorkerQuiet /\ ParserQuiet

Next == TrackerNext

Spec == Init /\ [][Next]_vars

(***************************************************************************)
(* The durable tracker in a deployment whose billing store stays bound,    *)
(* with the scheduling the platform gives: time passes, an alarm that is   *)
(* due fires, an awaited billing write settles; and with billing writes    *)
(* that do not fail for ever.  Record calls may stop at any moment (no     *)
(* fairness is asked of them).                                             *)
(***************************************************************************)
BoundInit == Init /\ billingBound

BoundNext ==
    \/ \E bytes \in 0..MaxBytes, cacheHit \in BOOLEAN : SiteUsageTracker_fetch(bytes, cacheHit)
    \/ SiteUsageTracker_fetch_malformed
    \/ SiteUsageTracker_alarm_idle
    \/ SiteUsageTracker_alarm_begin
    \/ SiteUsageTracker_alarm_written
    \/ SiteUsageTracker_alarm_failed
    \/ SiteUsageTracker_constructor(TRUE)
    \/ TimePasses

BoundFairness ==
    /\ WF_vars(TimePasses)
    /\ WF_vars(SiteUsageTracker_alarm_idle)
    /\ WF_vars(SiteUsageTracker_alarm_begin)
    /\ WF_vars(SiteUsageTracker_alarm_written \/ SiteUsageTracker_alarm_failed)
    /\ SF_vars(SiteUsageTracker_alarm_written)

BoundSpec == BoundInit /\ [][BoundNext]_vars /\ BoundFairness

FaultyInit == TrackerInit /\ WorkerQuiet /\ ParserQuiet

FaultySpec == FaultyInit /\ [][FaultyNext]_vars

InMemoryInit == InMemoryTrackerInit /\ WorkerQuiet /\ ParserQuiet

InMemorySpec == InMemoryInit /\ [][InMemoryNext]_vars

PipeInit == TrackerInit /\ billingBound /\ WorkerInit /\ ParserQuiet

PipeNext == WorkerNext

PipeSpec == PipeInit /\ [][PipeNext]_vars

(***************************************************************************)
(* Admission applied on its own: validateOrigin is called once, with the   *)
(* host, the environment and the registry value drawn from the sets below. *)
(* Specification: AdmissionSpec.                                           *)
(***************************************************************************)
AdmissionHosts ==
    {"example.com", "sub.example.com", "a.sub.example.com", "notexample.com", "other.org"}

\* Block lists, as the patterns BLOCKED_ORIGINS is written from (joined by a
\* comma and a space).
BlockLists ==
    { <<>>, <<"*">>, <<"example.com">>, <<"*.example.com">>, <<"other.org", "Example.COM">>,
      <<"", "*.Example.com">>, <<"*", "other.org">>, <<"ample.com">>,
      <<"*.sub.example.com">> }

OriginModes == {"", "open", "list", "registered", "closed"}

AllowLists == {"", "example.com, *.example.com"}

\* What the registry holds under the host: nothing, text that is no JSON,
\* JSON that is no array, or an array of DomainRecord (types.ts).
RegistryValues ==
    LET Rec(status) == [site_id |-> TenantId, status |-> status]
    IN  {[kind |-> k, records |-> <<>>] : k \in {"absent", "malformed", "object", "array"}}
        \cup {[kind |-> "array", records |-> r] :
                 r \in {<<Rec("active")>>, <<Rec("suspended")>>,
                        <<Rec("blocked"), Rec("active")>>,
                        <<Rec("blocked"), Rec("suspended")>>}}

\* the call of validateOrigin returns (validation.ts:231-319)
Admission_validateOrigin ==
    /\ ~originCall.returned
    /\ originCall' = [originCall EXCEPT !.returned = TRUE]
    /\ originResult' = validateOrigin(originCall.domain, originCall.env, originCall.value,
                                      originCall.failed)
    /\ UNCHANGED <<trackerVars, workerVars, rangeCall, rangeResult, urlCall, urlResult,
                   limited>>

AdmissionInit ==
    /\ TrackerInit /\ billingBound /\ WorkerQuiet /\ RangeQuiet /\ UrlQuiet /\ StreamQuiet
    /\ \E host \in AdmissionHosts, mode \in OriginModes, blocked \in BlockLists,
          allowed \in AllowLists, kvBound \in BOOLEAN, value \in RegistryValues,
          failed \in BOOLEAN :
          originCall = [domain |-> host,
                        env |-> EnvOf(mode, Join(blocked, ", "), allowed, kvBound),
                        blocked |-> blocked, value |-> value, failed |-> failed,
                        returned |-> FALSE]
    /\ originResult = NoValidation

AdmissionNext == Admission_validateOrigin

AdmissionSpec == AdmissionInit /\ [][AdmissionNext]_vars

(***************************************************************************)
(* The URL parser applied on its own: parseUrl is called on two pathnames  *)
(* written from the same host and the same segments, the first in the      *)
(* plain form, the second with percent-escapes and with redundant pieces   *)
(* put in.  Specification: UrlSpec.                                        *)
(***************************************************************************)
\* a character as a percent-escape, its hexadecimal digits in upper or lower case
EscapeChar(c, upper) ==
    LET code == charCodeAt(c)
        digits == CharAt(HexUpper, (code \div 16) + 1) \o CharAt(HexUpper, (code % 16) + 1)
    IN  "%" \o (IF upper THEN digits ELSE toLowerCase(digits))

RECURSIVE EscapeAll(_)
EscapeAll(str) ==
    IF Len(str) = 0 THEN ""
    ELSE EscapeChar(CharAt(str, 1), TRUE) \o EscapeAll(SubSeq(str, 2, Len(str)))

\* the ways a segment (or the host) is written: as it is, its first
\* character escaped, every character escaped
WrittenForms(str) ==
    {str, EscapeChar(CharAt(str, 1), FALSE) \o SubSeq(str, 2, Len(str)), EscapeAll(str)}

\* the host and the paths (as segments) the pathnames are written from
UrlHosts == {"example.com"}

UrlPaths == {<<"a.jpg">>, <<"b", "a.jpg">>}

\* redundant pieces: before the first segment, before a later segment, and
\* after the last one.  A ".." is redundant after a segment put in with it,
\* and where there is nothing above it.
FillersFirst == {"", "./", "/", "x/../", "../", "%2E%2E/", "x%2F..%2F", ".%2F"}

FillersLater == {"", "./", "/", "x/../", "x%2F%2e%2e%2F"}

FillersLast == {"", "/", "/.", "/x/.."}

\* the ways the host is written: as it is, in mixed case, its first
\* character escaped
HostForms(host) ==
    {host, "Example.COM", EscapeChar(CharAt(host, 1), FALSE) \o SubSeq(host, 2, Len(host))}

\* the pathnames written from a host and its segments
PlainPathname(host, segments) == "/" \o host \o "/" \o Join(segments, "/")

RECURSIVE WrittenTails(_)
WrittenTails(segments) ==
    IF Len(segments) = 0 THEN FillersLast
    ELSE {"/" \o f \o w \o t :
             f \in FillersLater, w \in WrittenForms(Head(segments)),
             t \in WrittenTails(Tail(segments))}

WrittenPathnames(host, segments) ==
    {lead \o h \o "/" \o f \o w \o t :
        lead \in {"/", "//"}, h \in HostForms(host), f \in FillersFirst,
        w \in WrittenForms(Head(segments)), t \in WrittenTails(Tail(segments))}

\* the two calls of parseUrl return (validation.ts:45-84)
Url_parseUrl ==
    /\ ~urlCall.returned
    /\ urlCall' = [urlCall EXCEPT !.returned = TRUE]
    /\ urlResult' = <<parseUrl(Url(urlCall.pathnames[1], "null")),
                      parseUrl(Url(urlCall.pathnames[2], "null"))>>
    /\ UNCHANGED <<trackerVars, workerVars, rangeCall, rangeResult, originCall, originResult,
                   limited>>

UrlInit ==
    /\ TrackerInit /\ billingBound /\ WorkerQuiet /\ RangeQuiet /\ AdmissionQuiet
    /\ StreamQuiet
    /\ \E host \in UrlHosts, segments \in UrlPaths :
          \E written \in WrittenPathnames(host, segments) :
             urlCall = [host |-> host, segments |-> segments,
                        pathnames |-> <<PlainPathname(host, segments), written>>,
                        returned |-> FALSE]
    /\ urlResult = <<ParseError(""), ParseError("")>>

UrlNext == Url_parseUrl

UrlSpec == UrlInit /\ [][UrlNext]_vars

\* the Range headers the parser is applied to: the three forms over the
\* numbers up to MaxTotalSize + 1, and headers no form matches
RangeNumbers == 0..(MaxTotalSize + 1)

RangeHeaders ==
    {"bytes=" \o ToString(a) \o "-" \o ToString(b) : a, b \in RangeNumbers}
    \cup {"bytes=" \o ToString(a) \o "-" : a \in RangeNumbers}
    \cup {"bytes=-" \o ToString(b) : b \in RangeNumbers}
    \cup {"", "bytes=", "bytes=-", "bytes=1", "bytes=0-0,1-1", "bytes=a-1", "bytes=0-b",
          "bytes= 0-1 ", "bytes=0 - 1", "bytes=--1", "bytes=-1-", "items=0-1", "Bytes=0-1",
          "bytes=1.5-2", "bytes=+1-2", "bytes=00-01"}

\* the call of parseRangeHeader returns (part_007:31-92)
Range_parseRangeHeader ==
    /\ ~rangeCall.returned
    /\ rangeCall' = [rangeCall EXCEPT !.returned = TRUE]
    /\ rangeResult' = parseRangeHeader(rangeCall.rangeHeader, rangeCall.totalSize)
    /\ UNCHANGED <<trackerVars, workerVars, originCall, originResult, urlCall, urlResult,
                   limited>>

RangeInit ==
    /\ TrackerInit /\ billingBound /\ WorkerQuiet
    /\ rangeCall \in [rangeHeader : RangeHeaders, totalSize : 0..MaxTotalSize,
                       returned : {FALSE}]
    /\ rangeResult = NoRange
    /\ AdmissionQuiet /\ UrlQuiet /\ StreamQuiet

RangeNext == Range_parseRangeHeader

RangeSpec == RangeInit /\ [][RangeNext]_vars

(***************************************************************************)
(* The size-limited stream applied on its own: one stream is made over a   *)
(* source of a few chunks and piped through the transformer.  The          *)
(* transformer's algorithms run only while the readable side is open: an   *)
(* errored, closed or cancelled transform stream has cleared them.         *)
(***************************************************************************)
\* the pipe writes the next chunk of the source to the transformer
Stream_transform ==
    /\ limited.readable = "open"
    /\ limited.taken < Len(limited.chunks)
    /\ limited' = SizeLimited_transform(limited, limited.chunks[limited.taken + 1])
    /\ UNCHANGED <<trackerVars, workerVars, rangeCall, rangeResult, originCall,
                   originResult, urlCall, urlResult>>

\* the source is exhausted and the pipe closes the writable side
Stream_flush ==
    /\ limited.readable = "open"
    /\ limited.taken = Len(limited.chunks)
    /\ limited' = SizeLimited_flush(limited)
    /\ UNCHANGED <<trackerVars, workerVars, rangeCall, rangeResult, originCall,
                   originResult, urlCall, urlResult>>

\* the consumer cancels the readable side, or the source fails and the pipe
\* aborts the writable side
Stream_cancel ==
    /\ limited.readable = "open"
    /\ limited' = SizeLimited_cancel(limited)
    /\ UNCHANGED <<trackerVars, workerVars, rangeCall, rangeResult, originCall,
                   originResult, urlCall, urlResult>>

StreamSources == UNION {[1..n -> 0..MaxChunkBytes] : n \in 0..MaxChunks}

StreamInit ==
    /\ TrackerInit /\ billingBound /\ WorkerQuiet
    /\ RangeQuiet /\ AdmissionQuiet /\ UrlQuiet
    /\ \E chunks \in StreamSources, maxSize \in 0..MaxFileSize :
          limited = NewLimited(chunks, maxSize)

StreamNext == Stream_transform \/ Stream_flush \/ Stream_cancel

StreamSpec == StreamInit /\ [][StreamNext]_vars

(***************************************************************************)
(* Claims about the usage aggregator, checked under Spec.                  *)
(***************************************************************************)

FailedFlushStep ==
    trackerPc = "d1" /\ trackerPc' = "idle" /\ usage_hourly' = usage_hourly

\* The step of alarm() that starts a billing write.
FlushBeginStep ==
    trackerPc = "idle" /\ trackerPc' = "d1"

\* The amounts of a flush cover the amounts of the failed one before it.
Covers(f, o) ==
    /\ f.bandwidth >= o.bandwidth /\ f.requests >= o.requests
    /\ f.cacheHits >= o.cacheHits /\ f.cacheMisses >= o.cacheMisses

CounterLowered ==
    \/ bandwidth' < bandwidth \/ requests' < requests
    \/ cacheHits' < cacheHits \/ cacheMisses' < cacheMisses

\* A column of one site's row of the hourly rollup (0 when there is no row).
HourlyOf(tbl, id, column) ==
    IF id \in DOMAIN tbl THEN tbl[id][column] ELSE 0

\* This step wrote to the hourly rollup, in the row of the flush's site,
\* exactly what it took from the live counters.
LoweredByWhatWasWritten ==
    LET id == flush.siteId
    IN /\ trackerPc = "d1"
       /\ HourlyOf(usage_hourly', id, "bandwidth_bytes")
            - HourlyOf(usage_hourly, id, "bandwidth_bytes") = bandwidth - bandwidth'
       /\ HourlyOf(usage_hourly', id, "requests")
            - HourlyOf(usage_hourly, id, "requests") = requests - requests'
       /\ HourlyOf(usage_hourly', id, "cache_hits")
            - HourlyOf(usage_hourly, id, "cache_hits") = cacheHits - cacheHits'
       /\ HourlyOf(usage_hourly', id, "cache_misses")
            - HourlyOf(usage_hourly, id, "cache_misses") = cacheMisses - cacheMisses'

NoBillingWrite == usage_hourly' = usage_hourly /\ sites' = sites

\* C27: when the alarm fires on an instance with no billing store bound, the
\* handler writes nothing to the billing store, clears the durable storage
\* and leaves no alarm pending; from then on, until the instance is
\* constructed again with billing bound, no alarm is pending, no alarm
\* handler runs and nothing is written to the billing store.
C27_UnboundAlarmStops ==
    /\ [][ (~stopped /\ stopped') =>
             (NoBillingWrite /\ storage' = EmptyStorage /\ ~alarmSet') ]_vars
    /\ [](stopped => (~alarmSet /\ trackerPc = "idle"))
    /\ [][ stopped => NoBillingWrite ]_vars
    /\ [][ (stopped /\ alarmSet') => billingBound' ]_vars

\* C27, its case: the alarm fired with no billing store bound after records
\* had arrived, and a record arrives again on the stopped instance; nothing
\* was ever written to the billing store.
C27_Witness ==
    /\ stopped /\ ~billingBound /\ ~alarmSet
    /\ recorded.calls = MaxRecords /\ requests = 1 /\ initialized
    /\ usage_hourly = [id \in {} |-> 0]

\* A step of the constructor on re-hydration.
Constructed == ran' = "constructor"

\* C28: on construction or re-hydration an alarm is set iff no alarm is
\* pending and billing is bound; the time of a pending alarm is never
\* replaced by a restart.  (The storage holds one alarm for the object, so
\* at most one is pending.)
C28_AlarmSetIffNonePendingAndBound ==
    /\ (alarmSet <=> billingBound)
    /\ [][ Constructed =>
             /\ (~alarmSet /\ billingBound') => (alarmSet' /\ alarmIn' = AlarmPeriod)
             /\ (~alarmSet /\ ~billingBound') => ~alarmSet'
             /\ alarmSet => (alarmSet' /\ alarmIn' = alarmIn) ]_vars

\* C28 without its first part: what is left of it for a fresh object whose
\* billing store is bound.
C28_PendingAlarmKept ==
    [][ Constructed => (alarmSet => (alarmSet' /\ alarmIn' = alarmIn)) ]_vars

\* The four live counters and their durable copies are zero, and the hourly
\* rollup holds all that the accepted record calls carried.
Drained ==
    /\ Live = ZeroCounters /\ Stored = ZeroCounters
    /\ HourlyRequestsAll = recorded.calls /\ HourlyBandwidthAll = recorded.bytes

C35_MemoryEqualsStorage == trackerPc = "idle" => Live = Stored

\* C35, its case when every storage write succeeds: a billing write has
\* failed, a record call arrived meanwhile, and no handler is executing
C35_ReliableCase ==
    /\ trackerPc = "idle" /\ owed.requests > 0 /\ raced /\ requests > owed.requests

\* C35, what a failed storage write leads to: more bytes in the hourly rollup
\* than the record calls carried
C35_BilledTwice == HourlyBandwidthAll > recorded.bytes

\* C36: in every reachable state of the aggregator, requests = cacheHits +
\* cacheMisses for the live counters, and the same holds for every row of the
\* hourly rollup of the billing store; and requests = 0 implies that
\* bandwidth, cacheHits and cacheMisses are 0, so the idle check of alarm()
\* skips no pending amount.
C36_RequestsAreHitsPlusMisses ==
    /\ requests = cacheHits + cacheMisses
    /\ \A id \in DOMAIN usage_hourly :
          usage_hourly[id].requests = usage_hourly[id].cache_hits + usage_hourly[id].cache_misses
    /\ requests = 0 => (bandwidth = 0 /\ cacheHits = 0 /\ cacheMisses = 0)

\* C36, its case: a record call arrived while a flush was awaited, a hit and
\* a miss with bytes have been written to the rollup, and the alarm handler
\* has left the counters at 0
C36_Witness ==
    /\ TenantId \in DOMAIN usage_hourly
    /\ usage_hourly[TenantId].cache_hits = 1 /\ usage_hourly[TenantId].cache_misses = 1
    /\ usage_hourly[TenantId].bandwidth_bytes > 0
    /\ raced /\ requests = 0 /\ trackerPc = "idle" /\ ran = "alarm" /\ alarmSet

\* C37: with billing bound, after the constructor has run and after every
\* completed alarm handler (idle, successful flush or failed flush) an alarm
\* is pending; hence, with billing bound and no alarm handler under way, no
\* state has counters that are not zero and no pending alarm.
C37_AlarmPendingWhenBound ==
    /\ (billingBound /\ trackerPc = "idle") => alarmSet
    /\ (billingBound /\ trackerPc = "idle" /\ Live # ZeroCounters) => alarmSet

\* C37, its case: a flush has failed, the handler has returned, the counters
\* hold what it could not write, and the next alarm is pending a full period
\* ahead
C37_Witness ==
    /\ billingBound /\ trackerPc = "idle" /\ ran = "alarm"
    /\ owed.requests > 0 /\ requests > 0 /\ alarmSet /\ alarmIn = AlarmPeriod

\* C38: every flush that writes amounts that are not zero to the billing
\* store writes them under the tenant id the record calls carried, never
\* under tenant id 0, whatever the sequence of records, clears of the storage
\* by the missing-billing path, restarts and alarms.
C38_FlushUnderTenantId ==
    \A id \in DOMAIN usage_hourly :
        usage_hourly[id].requests > 0 => id = TenantId

\* C38, its case where the billing store stays bound: amounts have been
\* written after a restart, under the tenant id of the records
C38_BoundCase ==
    /\ TenantId \in DOMAIN usage_hourly /\ usage_hourly[TenantId].requests = MaxRecords
    /\ ran = "constructor"

(***************************************************************************)
(* Claims about the request pipeline, checked under PipeSpec.              *)
(***************************************************************************)
\* a name of dot-separated labels that ends in an alphabetic label of at
\* least two characters
WellFormedName(labels) ==
    /\ Len(labels) >= 2
    /\ \A i \in 1..(Len(labels) - 1) : IsDomainLabel(labels[i])
    /\ Len(labels[Len(labels)]) >= 2
    /\ AllChars(labels[Len(labels)], IsAlpha)

\* a host fails validity: an IP literal, localhost, an internal or metadata
\* pattern, or a malformed name
FailsValidity(host) ==
    \/ IsIPv4Shaped(host)
    \/ Includes(host, ":")
    \/ host \in {"localhost", "localhost.localdomain", "broadcasthost"}
    \/ MatchesInternalPattern(host)
    \/ ~WellFormedName(Split(host, "."))

PathHostFails == [p \in Pathnames |-> FailsValidity(PathHost(p))]

UrlHostFails == [u \in FetchUrls |-> FailsValidity(ParseURL(u).hostname)]

\* the paths the worker answers itself
ServiceEndpoints == {"/health", "/ping", "/stats"}

Answered(i) == req[i].pc = "done"

\* a GET with neither Range nor If-None-Match nor force
PlainGet(s) ==
    /\ s.request.method = "GET" /\ s.request.range = "" /\ s.request.ifNoneMatch = ""
    /\ s.request.url.force = "null"

C7_StatusInSet ==
    \A i \in 1..MaxRequests :
        Answered(i) => req[i].response.status \in {200, 204, 206, 302, 304, 400, 405, 416}

C9_Original == \A o \in overwrites : o.force

\* C9: a request hands a body to the store only if its own lookup returned
\* no object (force-refresh skips the lookup); every write onto a key that
\* already holds an object comes from such a request.
C9_PutOnlyAfterOwnMiss ==
    /\ \A i \in 1..MaxRequests : req[i].put # "none" => req[i].sawUploaded = 0
    /\ \A o \in overwrites : req[o.slot].sawUploaded = 0 /\ req[o.slot].put = "stored"

\* C9, its case: two requests without force-refresh both missed the same
\* cold key, both puts were stored, the second replacing the first.
C9_Witness ==
    \E i, j \in 1..MaxRequests :
        /\ i # j
        /\ req[i].put = "stored" /\ req[j].put = "stored"
        /\ req[i].parsed.cacheKey = req[j].parsed.cacheKey
        /\ ~req[i].parsed.forceReprocess /\ ~req[j].parsed.forceReprocess
        /\ [slot |-> j, force |-> FALSE] \in overwrites

\* a cold GET answered 200 with cache status miss and a known Content-Length
ColdMiss(s) ==
    /\ s.pc = "done" /\ s.request.method = "GET" /\ s.request.url.force = "null"
    /\ s.response.status = 200 /\ s.response.xstatus = "miss"
    /\ s.response.contentLength # -1

\* the answer 200, cache status hit, the body given, ETag and Last-Modified present
IsHitWith(response, body) ==
    /\ response.status = 200 /\ response.xstatus = "hit"
    /\ response.body = body
    /\ response.etag # "" /\ response.lastModified # 0

\* C10 as stated: after a cold GET has been answered 200 miss, a GET for the
\* same URL that arrives after that response is answered 200 hit with the
\* identical body, ETag and Last-Modified present.
C10_Original ==
    \A i, j \in 1..MaxRequests :
        (/\ ColdMiss(req[i]) /\ i \in req[j].followed
         /\ Answered(j) /\ PlainGet(req[j])
         /\ req[j].request.url = req[i].request.url)
            => IsHitWith(req[j].response, req[i].response.body)

\* C10: after a cold GET has been answered 200 miss and its background put
\* has stored the object, a plain GET for the same URL whose lookup reads
\* that object, no cache read failing, is answered 200 hit with the
\* identical body, ETag and Last-Modified present.
C10_HitAfterPutStored ==
    \A i, j \in 1..MaxRequests :
        (/\ ColdMiss(req[i]) /\ req[i].put = "stored"
         /\ Answered(j) /\ PlainGet(req[j]) /\ ~req[j].readFailed
         /\ req[j].request.url = req[i].request.url
         /\ req[j].validation.allowed
         /\ req[j].sawUploaded = req[i].putUploaded)
            => IsHitWith(req[j].response, req[i].response.body)

\* C10, its case: the second GET has read the object the first one stored
\* and has been answered.
C10_Witness ==
    \E i, j \in 1..MaxRequests :
        /\ ColdMiss(req[i]) /\ req[i].put = "stored"
        /\ Answered(j) /\ PlainGet(req[j])
        /\ req[j].request.url = req[i].request.url
        /\ req[j].sawUploaded = req[i].putUploaded
        /\ req[j].response.xstatus = "hit"

\* a cache hit on an entry that is no supported media kind: the request was
\* admitted, its reads of the cache succeeded and found an object whose
\* stored content type is not classified as media
PoisonedHit(s) ==
    /\ s.pc = "done" /\ s.request.method \in {"GET", "HEAD"}
    /\ s.validation.allowed \/ s.response.xstatus = "cached"
    /\ s.found.present /\ ~s.readFailed /\ ~s.rangeRejected
    /\ ~MediaContentTypeOf[toLowerCase(s.found.contentType)]

\* C13: on every GET or HEAD cache hit whose stored content type is not a
\* supported media kind, the response is a 302 to the source URL (never 200,
\* 206 or 304 built from the stored object) and a delete of the key is
\* scheduled.
C13_PoisonedHitRedirects ==
    \A i \in 1..MaxRequests :
        PoisonedHit(req[i])
            => /\ req[i].response.status = 302
               /\ req[i].response.location = req[i].parsed.sourceUrl
               /\ req[i].delete # "none"

\* a GET that hit the cache: the request was admitted and its lookup found
\* an object of a supported media kind
MediaHit(s) ==
    /\ s.pc = "done" /\ s.request.method = "GET"
    /\ s.validation.allowed
    /\ s.found.present
    /\ MediaContentTypeOf[toLowerCase(s.found.contentType)]

\* the If-None-Match of the request equals the ETag of the object found
Revalidates(s) == s.request.ifNoneMatch # "" /\ s.request.ifNoneMatch = s.found.etag

\* C14: on a GET cache hit with a supported content type where If-None-Match
\* equals the stored ETag, the response is 304 with an empty body and exactly
\* one usage record, with bytes = 0 and cache_hit = true, is issued, whatever
\* Range header the request carries.
C14_MatchingEtagIs304 ==
    \A i \in 1..MaxRequests :
        (MediaHit(req[i]) /\ Revalidates(req[i]))
            => /\ req[i].response.status = 304
               /\ req[i].response.body = ""
               /\ req[i].usage = <<[domain |-> req[i].parsed.domain, bytes |-> 0,
                                    cacheHit |-> TRUE]>>

\* the Range header of the request is one the range parser rejects against
\* the size of the object found
RangeUnsatisfiable(s) ==
    s.request.range # "" /\ ~parseRangeHeader(s.request.range, s.found.size).ok

\* C15: on a GET cache hit (supported media, no matching If-None-Match) for
\* an object of size N with a Range header that the range parser rejects, the
\* response is 416 with Content-Range: bytes */N, whatever became of the
\* speculative ranged read issued for a bytes=A-B header.
C15_RejectedRangeIs416 ==
    \A i \in 1..MaxRequests :
        (MediaHit(req[i]) /\ ~Revalidates(req[i]) /\ RangeUnsatisfiable(req[i]))
            => /\ req[i].response.status = 416
               /\ req[i].response.contentRange = <<-1, -1, req[i].found.size>>

\* a GET without Range answered from the origin on a miss, the body within
\* the size cap
MissServed(s) ==
    /\ s.pc = "done" /\ s.request.method = "GET" /\ s.request.range = ""
    /\ s.response.xstatus = "miss"
    /\ Len(s.response.body) <= env.MAX_FILE_SIZE

\* the background work of a request is over: the stream has ended and the
\* put has settled or was never started
BackgroundDone(s) == s.stream = "ended" /\ s.put \in {"stored", "failed", "skipped"}

\* the object under the key of the request is the one its own put wrote
OwnObject(s) == s.put = "stored" /\ r2[s.parsed.cacheKey].uploaded = s.putUploaded

ColdGet(s) ==
    /\ s.pc = "done" /\ s.request.method = "GET"
    /\ s.validation.allowed /\ ~s.parsed.forceReprocess
    /\ ~s.found.present /\ ~s.readFailed /\ ~s.rangeRejected

\* C12: a GET carrying a Range header other than the full-file probe
\* bytes=0-, for a key absent from the cache, is answered 302 to the source
\* URL, performs no origin fetch and writes no object under that key.
C12_PartialRangeOnMissRedirects ==
    \A i \in 1..MaxRequests :
        (ColdGet(req[i]) /\ req[i].request.range \notin {"", "bytes=0-"})
            => /\ req[i].response.status = 302
               /\ req[i].response.location = req[i].parsed.sourceUrl
               /\ req[i].fetches = 0
               /\ req[i].put = "none"

\* the answer 206 that carries the whole object found: Content-Range
\* bytes 0-(N-1)/N, Content-Length N and a body of N bytes with the ETag of
\* the object
IsWhole206(response, object) ==
    /\ response.status = 206
    /\ response.contentRange = <<0, object.size - 1, object.size>>
    /\ response.contentLength = object.size
    /\ Len(response.body) = object.size /\ EtagOf(response.body) = object.etag

\* C16 as stated: for every cached supported-media object of size N, a GET
\* with Range: bytes=0- returns 206 with Content-Range: bytes 0-(N-1)/N,
\* Content-Length: N and the whole body.
C16_Original ==
    \A i \in 1..MaxRequests :
        (MediaHit(req[i]) /\ req[i].request.range = "bytes=0-")
            => IsWhole206(req[i].response, req[i].found)

\* C16: for every cached supported-media object of size N >= 1, a GET with
\* Range: bytes=0- and no matching If-None-Match returns 206 with
\* Content-Range: bytes 0-(N-1)/N, Content-Length: N and the whole body; for
\* a cached object of size 0 it returns 416 with Content-Range: bytes */0.
C16_ProbeOnHit ==
    \A i \in 1..MaxRequests :
        (MediaHit(req[i]) /\ ~Revalidates(req[i]) /\ req[i].request.range = "bytes=0-")
            => IF req[i].found.size >= 1
               THEN IsWhole206(req[i].response, req[i].found)
               ELSE /\ req[i].response.status = 416
                    /\ req[i].response.contentRange = <<-1, -1, 0>>

\* C16, its case: bytes=0- has been answered from a cached object of two
\* bytes.
C16_Witness ==
    \E i \in 1..MaxRequests :
        /\ MediaHit(req[i]) /\ req[i].request.range = "bytes=0-"
        /\ req[i].found.size = 2
        /\ req[i].response.status = 206 /\ req[i].response.body = "ab"

\* the origin's answer passed the checks of status and content type and
\* announced a Content-Length of n: validateResponseSize has returned it
Announced(s, n) == s.pc = "done" /\ s.sizeValidation.size = n

\* what became of a miss served with a body of exactly the cap: the stream
\* does not err, the client that stayed got all the bytes, and the put, unless
\* the store failed, wrote an object of those bytes
ServedInFull(s) ==
    /\ s.stream # "errored"
    /\ s.client \in {"open", "complete", "gone"}
    /\ s.client = "complete" => s.received = Len(s.response.body)
    /\ s.put \in {"streaming", "ready", "stored", "failed"}
    /\ s.put = "failed" => s.putError = "store"
    /\ (s.put = "stored" /\ r2[s.parsed.cacheKey].uploaded = s.putUploaded)
          => /\ r2[s.parsed.cacheKey].size = Len(s.response.body)
             /\ r2[s.parsed.cacheKey].etag = EtagOf(s.response.body)

\* C18: on a cache miss with size cap M, an origin media response with
\* Content-Length = M and M body bytes is served to the client and cached in
\* full, while a response with Content-Length = M + 1 is answered 302 with
\* nothing streamed to the client and nothing cached.
C18_SizeCapBoundary ==
    \A i \in 1..MaxRequests :
        /\ Announced(req[i], env.MAX_FILE_SIZE)
              => /\ req[i].response.status \in {200, 206}
                 /\ req[i].response.xstatus = "miss"
                 /\ req[i].response.contentLength = env.MAX_FILE_SIZE
                 /\ Len(req[i].response.body) = env.MAX_FILE_SIZE
                       => ServedInFull(req[i])
        /\ Announced(req[i], env.MAX_FILE_SIZE + 1)
              => /\ req[i].response.status = 302
                 /\ req[i].response.location = req[i].parsed.sourceUrl
                 /\ req[i].response.body = ""
                 /\ req[i].client = "none" /\ req[i].stream = "none"
                 /\ req[i].put = "none"

\* C18, its case: a body of exactly the cap has been served to the client
\* and stored, and it is the object under the key; another answer, one byte
\* larger, has been turned away.
C18_Witness ==
    \E i, j \in 1..MaxRequests :
        /\ Announced(req[i], env.MAX_FILE_SIZE)
        /\ req[i].client = "complete" /\ req[i].received = env.MAX_FILE_SIZE
        /\ req[i].put = "stored"
        /\ r2[req[i].parsed.cacheKey].size = env.MAX_FILE_SIZE
        /\ Announced(req[j], env.MAX_FILE_SIZE + 1)
        /\ req[j].response.status = 302

\* the usage records of a request are the one record of a miss with these bytes
TrackedMiss(s, bytes) ==
    s.usage = <<[domain |-> s.parsed.domain, bytes |-> bytes, cacheHit |-> FALSE]>>

\* C19 as stated: on the miss path, when the size-limited stream ends
\* because the body exceeded the cap, a usage record is still issued with the
\* byte count observed up to that point, exactly as on successful completion.
C19_Original ==
    \A i \in 1..MaxRequests :
        (req[i].response.xstatus = "miss" /\ req[i].stream = "errored")
            => \E passed \in 0..env.MAX_FILE_SIZE : TrackedMiss(req[i], passed)

\* C19: on the miss path, a stream that ends within the cap issues one usage
\* record, a miss with the bytes counted, which are those of the body; a
\* stream that errs because the body exceeded the cap issues no usage record,
\* and none is issued before the stream has ended.
C19_UsageOnlyOnCompletion ==
    \A i \in 1..MaxRequests :
        req[i].response.xstatus = "miss"
            => IF req[i].stream = "ended"
               THEN TrackedMiss(req[i], Len(req[i].response.body))
               ELSE req[i].usage = <<>>

\* C19, its case: a body larger than the cap has passed the size check
\* without a Content-Length, the size-limited stream has erred after letting
\* through as many bytes as the cap allows, and no usage has been recorded.
C19_Witness ==
    \E i \in 1..MaxRequests :
        /\ req[i].response.xstatus = "miss" /\ req[i].stream = "errored"
        /\ req[i].client = "errored" /\ req[i].received = env.MAX_FILE_SIZE
        /\ req[i].usage = <<>>

\* C20: on the miss path, a client disconnect does not cancel the cache-bound
\* branch of the tee: when the origin delivers the full body of the declared
\* length, the stream does not err and is cancelled only where the store
\* has failed the put, the put is handed the whole body and fails only if
\* the store fails, and the object it stores is the body in full.
C20_DisconnectKeepsPut ==
    \A i \in 1..MaxRequests :
        (/\ req[i].response.xstatus = "miss" /\ req[i].client = "gone"
         /\ req[i].response.contentLength = Len(req[i].response.body))
            => /\ req[i].stream \in {"open", "ended", "cancelled"}
               /\ req[i].stream = "cancelled" => req[i].put = "failed"
               /\ req[i].put \in {"streaming", "ready", "stored", "failed"}
               /\ req[i].stream = "ended" => req[i].put # "streaming"
               /\ req[i].put = "failed" => req[i].putError = "store"
               /\ (/\ req[i].put = "stored"
                   /\ r2[req[i].parsed.cacheKey].uploaded = req[i].putUploaded)
                     => /\ r2[req[i].parsed.cacheKey].size = req[i].response.contentLength
                        /\ r2[req[i].parsed.cacheKey].etag = EtagOf(req[i].response.body)

\* C20, its case: the client went away before the body had passed, the
\* origin delivered the body, and the put stored it in full under the key.
C20_Witness ==
    \E i \in 1..MaxRequests :
        /\ req[i].response.xstatus = "miss" /\ req[i].client = "gone"
        /\ req[i].stream = "ended" /\ req[i].put = "stored"
        /\ r2[req[i].parsed.cacheKey].uploaded = req[i].putUploaded
        /\ r2[req[i].parsed.cacheKey].size = req[i].response.contentLength
        /\ req[i].response.contentLength >= 2

\* a cache hit answered with a body (200 or 206) whose delivery has ended:
\* the client has read the body to its end or has gone away
DeliveredHit(s) ==
    /\ s.pc = "done" /\ s.request.method = "GET"
    /\ s.response.xstatus = "hit" /\ s.response.status \in {200, 206}
    /\ s.client \in {"complete", "gone"}

\* C21: on every cache hit answered with a body (200 or 206), the bytes of
\* the usage record are the bytes delivered to the client: a client that goes
\* away after k bytes is accounted k bytes, not the length of the object or
\* of the range.
C21_HitUsageIsBytesDelivered ==
    \A i \in 1..MaxRequests :
        DeliveredHit(req[i])
            => req[i].usage = <<[domain |-> req[i].parsed.domain,
                                 bytes |-> req[i].received, cacheHit |-> TRUE]>>

\* C21 for the entry point whose hit path counts the bytes (index.ts:592-600,
\* 648-656)
C21_ByteCountedHitUsage == ByteCountedHits => C21_HitUsageIsBytesDelivered

\* C21, its case where the hit path counts the bytes: a client went away
\* after one byte of a cached body of two
C21_ByteCountedCase ==
    /\ ByteCountedHits
    /\ \E i \in 1..MaxRequests :
          /\ DeliveredHit(req[i]) /\ req[i].client = "gone"
          /\ req[i].received = 1 /\ Len(req[i].response.body) = 2

DeniedHead(s) ==
    /\ s.pc = "done" /\ s.request.method = "HEAD"
    /\ Parsed(s.request.url).ok
    /\ ~OriginOf[Parsed(s.request.url).domain, env, FALSE].allowed

\* C25: a HEAD request whose host is denied by admission is answered with a
\* 302 redirect, also when the object is in the cache; no metadata of a cached
\* object (ETag, Last-Modified, Content-Length) is returned for a denied host.
C25_DeniedHeadRedirects ==
    \A i \in 1..MaxRequests :
        DeniedHead(req[i])
            => /\ req[i].response.status = 302
               /\ req[i].response.etag = ""
               /\ req[i].response.contentLength = -1

\* C25 for the entry point that answers HEAD inline (part_001:149-239)
C25_InlineDeniedHeadRedirects == headRoute = "inline" => C25_DeniedHeadRedirects

\* C25, its case where the entry point answers HEAD inline: a HEAD for a
\* denied host was answered
C25_InlineCase ==
    /\ headRoute = "inline"
    /\ \E i \in 1..MaxRequests : DeniedHead(req[i]) /\ ~req[i].readFailed

\* C25, the case the route through handleHeadRequest gets wrong: the stored
\* metadata of an object was returned for a host admission denies
C25_CachedMetadataForDeniedHost ==
    \E i \in 1..MaxRequests :
        /\ DeniedHead(req[i])
        /\ req[i].response.status = 200 /\ req[i].response.xstatus = "cached"
        /\ req[i].response.etag = r2[req[i].parsed.cacheKey].etag

\* a HEAD request that was answered and whose path named a host
AnsweredHead(s) ==
    s.pc = "done" /\ s.request.method = "HEAD" /\ Parsed(s.request.url).ok

\* the key of the request is absent from the cache: the handler's read of
\* the metadata succeeded and found nothing (a handler that answered before
\* it read has found nothing either)
KeyAbsent(s) == ~s.readFailed /\ ~s.found.present

\* C26: a HEAD request never triggers an origin fetch or a store put; with
\* force-refresh set, or with the key absent from the cache, it is answered
\* 302 to the source URL.
C26_HeadOnlyReadsCache ==
    \A i \in 1..MaxRequests :
        req[i].request.method = "HEAD"
            => /\ req[i].fetches = 0
               /\ \A c \in fetchCalls : c.slot # i
               /\ req[i].put = "none" /\ req[i].stream = "none"
               /\ (/\ AnsweredHead(req[i])
                   /\ Parsed(req[i].request.url).forceReprocess \/ KeyAbsent(req[i]))
                     => /\ req[i].response.status = 302
                        /\ req[i].response.location = Parsed(req[i].request.url).sourceUrl

\* C26 for the entry point that answers HEAD inline (part_001:168-239)
C26_InlineHeadOnlyReadsCache == headRoute = "inline" => C26_HeadOnlyReadsCache

\* C26, its cases where the entry point answers HEAD inline: an admitted HEAD
\* with force-refresh was answered while the key was stored, and an admitted
\* HEAD was answered after its read of the metadata had found nothing
C26_InlineCase ==
    /\ headRoute = "inline"
    /\ \E i \in 1..MaxRequests :
          /\ AnsweredHead(req[i]) /\ req[i].validation.allowed
          /\ req[i].parsed.forceReprocess /\ r2[req[i].parsed.cacheKey].present
    /\ \E i \in 1..MaxRequests :
          /\ AnsweredHead(req[i]) /\ req[i].validation.allowed
          /\ ~req[i].parsed.forceReprocess /\ KeyAbsent(req[i])
          /\ req[i].followed # {}

\* C26, the case the route through handleHeadRequest gets wrong: a HEAD with
\* force-refresh was answered 200 from the cache
C26_ForcedHeadAnsweredFromCache ==
    \E i \in 1..MaxRequests :
        /\ AnsweredHead(req[i]) /\ Parsed(req[i].request.url).forceReprocess
        /\ req[i].response.status = 200 /\ req[i].response.xstatus = "cached"

\* C31: on the miss path a failure of the background put to the object
\* store does not change the client response.  Whenever the put of a
\* request has failed in the store, at whatever point of the streaming, the
\* response is the 200 or 206 miss response carrying the origin's body, the
\* client's stream has not erred, it still flows while the client has
\* neither received the body nor gone away, and a client that received the
\* response to its end received every byte of the body.
C31_PutFailureLeavesResponse ==
    \A i \in 1..MaxRequests :
        req[i].put = "failed" /\ req[i].putError = "store"
            => /\ req[i].response.status \in {200, 206}
               /\ req[i].response.xstatus = "miss"
               /\ req[i].client \in {"open", "complete", "gone"}
               /\ req[i].client = "open" => req[i].stream = "open"
               /\ req[i].stream = "ended" => req[i].client \in {"complete", "gone"}
               /\ req[i].client = "complete"
                     => req[i].received = Len(req[i].response.body)

\* C31, its case: the put of a miss failed in the store and the client has
\* received the two bytes of the body with status 200
C31_Witness ==
    \E i \in 1..MaxRequests :
        /\ req[i].put = "failed" /\ req[i].putError = "store"
        /\ req[i].response.status = 200
        /\ req[i].client = "complete" /\ req[i].received = 2

\* C31: the put has failed while the body still streams to the client
C31_FailedWhileStreaming ==
    \E i \in 1..MaxRequests :
        /\ req[i].put = "failed" /\ req[i].putError = "store"
        /\ req[i].stream = "open" /\ req[i].client = "open"

\* C31: the put of a miss answered with 206 failed and the client has
\* received the body
C31_PartialCase ==
    \E i \in 1..MaxRequests :
        /\ req[i].put = "failed" /\ req[i].putError = "store"
        /\ req[i].response.status = 206
        /\ req[i].client = "complete" /\ req[i].received > 0

\* the request in slot i writes an object in this step
WritesObject(i) == req'[i].putUploaded # req[i].putUploaded

\* the origin response a put is made from has a 2xx status, is not flagged
\* by block detection, has a supported media type and declares a length
\* within the cap
ValidatedOrigin(o) ==
    /\ ~o.throws /\ o.status \in 200..299
    /\ ~detectBlockedResponse(o)
    /\ MediaContentTypeOf[o.contentType]
    /\ o.contentLength # "" /\ ~parseInt(o.contentLength).nan
    /\ parseInt(o.contentLength).value <= env.MAX_FILE_SIZE

C34_RedirectCase ==
    \E i \in 1..MaxRequests :
        /\ req[i].response.status = 302 /\ req[i].fetches > 0
        /\ req[i].put = "none" /\ req[i].putUploaded = 0

\* a hit response with a body
BodiedHit(s) ==
    /\ s.pc = "done" /\ s.request.method = "GET"
    /\ s.response.xstatus = "hit" /\ s.response.status \in {200, 206}

\* the headers of a hit response describe the object the body was read from
DescribesServed(s) ==
    /\ s.response.etag = s.served.etag
    /\ s.response.contentLength = Len(s.response.body)
    /\ s.response.contentRange # <<>>
          => /\ s.response.contentRange[3] = s.served.size
             /\ s.response.contentRange[2] < s.served.size
             /\ s.response.contentLength
                   = s.response.contentRange[2] - s.response.contentRange[1] + 1

\* C39: every cache-hit response with a body (200 or 206) has a
\* Content-Length, a Content-Range total and an ETag that describe the same
\* object version as the bytes of its body, also when a put or a delete for
\* the same key runs between the request's metadata read and its body read.
C39_HitDescribesBody ==
    \A i \in 1..MaxRequests : BodiedHit(req[i]) => DescribesServed(req[i])

\* C39 for the hits whose body was read from the object version the metadata
\* read had found
C39_SameVersionHitDescribesBody ==
    \A i \in 1..MaxRequests :
        (BodiedHit(req[i]) /\ req[i].served.uploaded = req[i].found.uploaded)
            => DescribesServed(req[i])

\* C39: a ranged hit has answered one byte of the object its metadata read
\* had found; and a hit whose body was read from a later version
C39_SameVersionCase ==
    \E i \in 1..MaxRequests :
        /\ BodiedHit(req[i]) /\ req[i].response.status = 206
        /\ req[i].served.uploaded = req[i].found.uploaded
        /\ req[i].response.contentLength = 1

C39_LaterVersionCase ==
    \E i \in 1..MaxRequests :
        /\ BodiedHit(req[i])
        /\ req[i].served.uploaded > req[i].found.uploaded
        /\ req[i].response.etag # req[i].served.etag

\* a GET or HEAD that has been answered and whose host admission denies:
\* the verdict the handler got, or, where the handler asked for none, the
\* verdict admission gives for the host
DeniedRequest(s) ==
    /\ s.pc = "done" /\ s.request.method \in {"GET", "HEAD"}
    /\ Parsed(s.request.url).ok
    /\ IF s.validation = NoValidation
       THEN ~OriginOf[Parsed(s.request.url).domain, env, FALSE].allowed
       ELSE ~s.validation.allowed

\* C40: a GET or HEAD whose host is denied by admission has no side
\* effects: it has called fetch on no origin, has put and deleted nothing,
\* has streamed nothing and has issued no usage record, whatever the cache
\* lookup launched beside admission has found.
C40_DeniedHasNoSideEffects ==
    \A i \in 1..MaxRequests :
        DeniedRequest(req[i])
            => /\ req[i].fetches = 0
               /\ \A c \in fetchCalls : c.slot # i
               /\ req[i].put = "none" /\ req[i].putUploaded = 0
               /\ \A o \in overwrites : o.slot # i
               /\ req[i].delete = "none"
               /\ req[i].stream = "none"
               /\ req[i].usage = <<>>

\* C40, its case: a GET of a denied host has been answered, and its lookup
\* had found the object under its key
C40_Witness ==
    \E i \in 1..MaxRequests :
        /\ DeniedRequest(req[i]) /\ req[i].request.method = "GET"
        /\ req[i].found.present
        /\ req[i].response.status = 302

\* C40: a HEAD of a denied host has been answered with the object in the
\* store
C40_HeadCase ==
    \E i \in 1..MaxRequests :
        /\ DeniedRequest(req[i]) /\ req[i].request.method = "HEAD"
        /\ r2[req[i].parsed.cacheKey].present

(***************************************************************************)
(* Claims about admission, checked under AdmissionSpec.                    *)
(***************************************************************************)
\* the labels of a host name or pattern, in lower case
Labels(name) == Split(toLowerCase(name), ".")

\* A block pattern covers a host: the exact form `host` covers that host, the
\* wildcard form `*.parent` covers the proper subdomains of parent, never
\* parent itself.
PatternCovers(pattern, host) ==
    LET p == Labels(pattern)
        h == Labels(host)
    IN  /\ pattern # ""
        /\ IF Len(p) >= 2 /\ p[1] = "*"
             THEN Len(h) > Len(p) - 1 /\ SubSeq(h, Len(h) - Len(p) + 2, Len(h)) = Tail(p)
             ELSE p = h

\* The host of the call is on the block list of the call.
Blocklisted ==
    \/ originCall.env.BLOCKED_ORIGINS = "*"
    \/ \E i \in 1..Len(originCall.blocked) :
          PatternCovers(originCall.blocked[i], originCall.domain)

\* C22: validateOrigin denies in every mode whenever BLOCKED_ORIGINS is `*` or
\* contains a pattern that covers the host, whatever the allow-list and the
\* registry hold.
C22_BlocklistDenies ==
    (originCall.returned /\ Blocklisted) => ~originResult.allowed

\* C22, its case: in registered mode a host with an active registry record,
\* covered by a wildcard pattern of the block list, was denied by the
\* configuration.
C22_Witness ==
    /\ originCall.returned /\ originCall.env.ORIGIN_MODE = "registered"
    /\ originCall.env.ORIGINS_KV /\ ~originCall.failed
    /\ hasActive(originCall.value.records)
    /\ originCall.domain = "a.sub.example.com"
    /\ originCall.blocked = <<"", "*.Example.com">>
    /\ ~originResult.allowed /\ originResult.reason = "blocked"
    /\ originResult.source = "config"

\* C23: in registered mode, for a host that is not blocklisted, validateOrigin
\* allows iff the registry is bound, the read succeeds and gives an array
\* with at least one record of status active.
C23_RegisteredAllowsIffActive ==
    (originCall.returned /\ originCall.env.ORIGIN_MODE = "registered" /\ ~Blocklisted) =>
        (originResult.allowed <=>
            /\ originCall.env.ORIGINS_KV /\ ~originCall.failed
            /\ originCall.value.kind = "array"
            /\ \E i \in 1..Len(originCall.value.records) :
                  originCall.value.records[i].status = "active")

\* C23, its case: a host whose records are one blocked and one active was
\* allowed, the block list naming other hosts.
C23_Witness ==
    /\ originCall.returned /\ originCall.env.ORIGIN_MODE = "registered"
    /\ originCall.blocked = <<"*.sub.example.com">> /\ originCall.domain = "sub.example.com"
    /\ Len(originCall.value.records) = 2
    /\ originResult.allowed /\ originResult.source = "kv"
    /\ originResult.domain_records = originCall.value.records

(***************************************************************************)
(* Claims about the URL parser, checked under UrlSpec.                     *)
(***************************************************************************)
\* C30: two pathnames with the same host that differ only in percent-encoding
\* or in redundant ".", ".." and empty segments are parsed to the same cache
\* key and the same source URL, and the normalized path holds no "." and no
\* ".." segment.
C30_SameKeyForEquivalentPaths ==
    urlCall.returned =>
        /\ urlResult[1].ok /\ urlResult[2].ok
        /\ urlResult[1].cacheKey = urlResult[2].cacheKey
        /\ urlResult[1].sourceUrl = urlResult[2].sourceUrl
        /\ \A k \in 1..2 : \A i \in 1..Len(Split(urlResult[k].path, "/")) :
              Split(urlResult[k].path, "/")[i] \notin {".", ".."}

\* C30, its case: a pathname with the host in escapes, a ".." behind an
\* escaped slash before the first segment and a redundant pair after the
\* last one was parsed to the key of the plain pathname.
C30_Witness ==
    /\ urlCall.returned
    /\ urlCall.pathnames = <<"/example.com/b/a.jpg",
                             "//%65xample.com/x%2F..%2Fb//%61.jpg/x/..">>
    /\ urlResult[2].ok /\ urlResult[2].cacheKey = "example.com/b/a.jpg"
    /\ urlResult[2].sourceUrl = "https://example.com/b/a.jpg"

(***************************************************************************)
(* Claims about the range parser, checked under RangeSpec.                 *)
(***************************************************************************)

\* C17: for every total and every (start, end) with 0 <= start <= end < total,
\* parseRangeHeader("bytes=start-end", total) returns start, end,
\* length = end - start + 1 and isPartial = ((start, end) # (0, total - 1)).
C17_StandardRangeParsed ==
    \A start, end \in RangeNumbers :
        (/\ rangeCall.returned
         /\ start <= end /\ end < rangeCall.totalSize
         /\ rangeCall.rangeHeader = "bytes=" \o ToString(start) \o "-" \o ToString(end))
            => rangeResult = [ok |-> TRUE, start |-> start, end |-> end,
                              length |-> end - start + 1,
                              isPartial |-> <<start, end>> # <<0, rangeCall.totalSize - 1>>]

\* C17, its case: bytes=9-10 has been parsed against a total of 11 bytes,
\* numbers of one and of two digits, the range ending at the last byte.
C17_Witness ==
    /\ rangeCall = [rangeHeader |-> "bytes=9-10", totalSize |-> 11, returned |-> TRUE]
    /\ rangeResult.ok /\ rangeResult.isPartial /\ rangeResult.length = 2

\* C33: for every Range header and every total size >= 0, a result of
\* parseRangeHeader that is not null has 0 <= start <= end < totalSize and
\* length = end - start + 1, in the standard, the suffix and the open-ended
\* form, the end clamped to totalSize - 1.
C33_RangeWithinObject ==
    (rangeCall.returned /\ rangeResult.ok)
        => /\ 0 <= rangeResult.start
           /\ rangeResult.start <= rangeResult.end
           /\ rangeResult.end < rangeCall.totalSize
           /\ rangeResult.length = rangeResult.end - rangeResult.start + 1

\* C33, its case: bytes=3-12 has been parsed against a total of 11 bytes,
\* its end beyond the object, and the result ends at the last byte.
C33_Witness ==
    /\ rangeCall = [rangeHeader |-> "bytes=3-12", totalSize |-> 11, returned |-> TRUE]
    /\ rangeResult.ok /\ rangeResult.end = 10 /\ rangeResult.length = 8

(***************************************************************************)
(* Claims about the size-limited stream, checked under StreamSpec.         *)
(***************************************************************************)
\* C32: the byte-count promise of a size-limited stream settles exactly
\* once in every run.  While the stream runs it is pending; once the
\* stream has ended it is settled, by one call.  A stream that completed
\* resolved it with the total of all chunks, which is within maxSize, and
\* emitted every chunk; a stream whose cumulative count exceeded maxSize
\* rejected it, is errored, and emitted the chunks before the offending one
\* only; a cancelled stream rejected it.
C32_ByteCountSettlesOnce ==
    LET run == limited
        ahead == SubSeq(run.chunks, 1, run.taken)
    IN  /\ run.readable = "open"
           => run.byteCount = PendingByteCount /\ run.settleCalls = 0
        /\ run.readable # "open"
           => run.byteCount.status # "pending" /\ run.settleCalls = 1
        /\ run.readable = "closed"
           => /\ run.byteCount = ResolvedByteCount(SumOfChunks(run.chunks))
              /\ run.byteCount.value <= run.maxSize
              /\ run.emitted = run.chunks
        /\ run.readable = "errored"
           => /\ run.byteCount.status = "rejected"
              /\ SumOfChunks(ahead) > run.maxSize
              /\ run.emitted = SubSeq(run.chunks, 1, run.taken - 1)
              /\ SumOfChunks(run.emitted) <= run.maxSize
        /\ run.readable = "cancelled" => run.byteCount.status = "rejected"
        /\ run.byteCount.status = "resolved" => run.readable = "closed"

\* a stream cancelled after it emitted a chunk and before its source was
\* exhausted; below, a stream that completed with exactly maxSize bytes and
\* one that erred on its third chunk
C32_Witness ==
    /\ limited.readable = "cancelled"
    /\ limited.emitted = <<2>>
    /\ limited.taken < Len(limited.chunks)
    /\ limited.byteCount.status = "rejected"
    /\ limited.settleCalls = 1

C32_CompletedCase ==
    /\ limited.readable = "closed"
    /\ limited.chunks = <<1, 2>> /\ limited.maxSize = 3
    /\ limited.byteCount = ResolvedByteCount(3)

C32_ExceededCase ==
    /\ limited.readable = "errored"
    /\ limited.chunks = <<1, 1, 2>> /\ limited.maxSize = 3
    /\ limited.emitted = <<1, 1>>
    /\ limited.byteCount.status = "rejected"

====
